---- MODULE Spec2Model ----
(***************************************************************************)
(* Model of the ragged-array time series engine of ascat                   *)
(* (src/src/ascat/read_native/ragged_array_ts.py).                         *)
(*                                                                         *)
(* The module holds one specification per subsystem:                       *)
(*   DedupSpec   the sort + adjacent-pair dedup of CellFileCollectionStack *)
(*               .read and the dedup of the per-cell swath write           *)
(*   CodecSpec   indexed_to_contiguous / contiguous_to_indexed             *)
(*   Spec        the shard-handle cache of one CellFileCollection          *)
(*   StackSpec   CellFileCollectionStack._read_cells / _read_locations     *)
(*   MergeSpec   CellFileCollectionStack construction and merge_and_write  *)
(*   SwathSpec   SwathFileCollection.stack                                 *)
(*   MetaSpec    create_encoding and set_attributes                        *)
(*   PoolSpec    the write tasks of the flushes of SwathFileCollection     *)
(*               .stack: _parallel_write_cells and its workers             *)
(*   BudgetSpec  the outcome of SwathFileCollection.stack as a function of *)
(*               the input files and the memory budget                     *)
(*   ConfigSpec  the three entry points that check their arguments: a      *)
(*               behaviour of SwathSpec, of Spec or of StackSpec           *)
(* Every specification leaves the variables of the others untouched.       *)
(***************************************************************************)
EXTENDS Integers, Sequences, FiniteSets, TLC

\* ------------------------------------------------------------------- state
\* the dedup passes (DedupSpec)
VARIABLES
    ds,        \* the dataset: the merge result, then the result of the read
    prev,      \* the dataset the last pass started from
    compared,  \* the observations in the order the last pass compared them
    dupl,      \* the duplicate mask of the last pass
    passes,    \* the number of passes applied to ds
    op         \* the last operation: "none", "read" or "cell_ra"

dedup_vars == <<ds, prev, compared, dupl, passes, op>>

\* the codec (CodecSpec)
VARIABLES
    x0,      \* the dataset the run started from
    cds,     \* the current dataset
    steps,   \* the conversions applied so far
    cerr     \* the error the last conversion raised, or "none"

codec_vars == <<x0, cds, steps, cerr>>

\* one CellFileCollection (Spec)
VARIABLES
    fid,            \* the open shard handle (the cell list it was opened for) or None
    previous_cell,  \* the remembered cell list or None
    n_open,         \* the number of handles opened and not closed
    failure,        \* whether the last read failed to open, and what was open before it
    last,           \* the last call: its arguments, result and I/O events
    grid_cell_size, \* the cell size of the collection's grid
    lookup          \* out_cell_size, the cell size the lookup table was last built
                    \* for or None, and cell_lut, the table: target cell -> native
                    \* cells, or None

lookup_vars == <<grid_cell_size, lookup>>

coll_vars == <<fid, previous_cell, n_open, failure, last, lookup_vars>>

\* one CellFileCollectionStack (StackSpec)
VARIABLES
    collections,  \* the member collections: cell size and shard files
    sres          \* the last stack read: its arguments and its result

stack_vars == <<collections, sres>>

\* the stack that merge_and_write works on (MergeSpec)
VARIABLES
    mstack,  \* the stack: its collections, grids and _different_cell_sizes
    mw       \* the last merge_and_write: its arguments and what it did

merge_vars == <<mstack, mw>>

\* one call of SwathFileCollection.stack (SwathSpec)
VARIABLES
    sw,       \* the call: its arguments, its position and its locals
    out_dir,  \* the shard files in the output directory (by cell)
    events    \* what the call did to the outside, in order

swath_vars == <<sw, out_dir, events>>

\* one call of create_encoding or set_attributes (MetaSpec)
VARIABLES
    meta  \* the call: the dataset and the overrides given, and the encoding
          \* returned or the attributes the dataset carries afterwards

meta_vars == <<meta>>

\* the write tasks of one call of SwathFileCollection.stack (PoolSpec)
VARIABLES
    pool  \* the flush being written: its tasks, the workers and what is written

pool_vars == <<pool>>

\* one call of SwathFileCollection.stack with its data (BudgetSpec)
VARIABLES
    run  \* the call: the input files, the memory budget and the outcome

budget_vars == <<run>>

vars == <<dedup_vars, codec_vars, coll_vars, stack_vars, merge_vars, swath_vars,
          meta_vars, pool_vars, budget_vars>>

\* the state of a subsystem that a specification does not run
DedupIdle ==
    /\ ds = <<>> /\ prev = <<>> /\ compared = <<>> /\ dupl = <<>>
    /\ passes = 0 /\ op = "none"

CodecIdle ==
    /\ x0 = <<>> /\ cds = <<>> /\ steps = <<>> /\ cerr = "none"

CollIdle ==
    /\ fid = "None" /\ previous_cell = "None" /\ n_open = 0
    /\ failure = <<>> /\ last = <<>>
    /\ grid_cell_size = 0 /\ lookup = <<>>

StackIdle ==
    /\ collections = <<>> /\ sres = <<>>

MergeIdle ==
    /\ mstack = <<>> /\ mw = <<>>

SwathIdle ==
    /\ sw = <<>> /\ out_dir = {} /\ events = <<>>

MetaIdle ==
    /\ meta = <<>>

PoolIdle ==
    /\ pool = <<>>

BudgetIdle ==
    /\ run = <<>>

\* ------------------------------------------------------------------ bounds
\* longest observation sequence handed to a dedup pass
MaxObs == 3
\* largest locationIndex of the dedup data (locations 0..MaxLoc)
MaxLoc == 1
\* number of consecutive stack reads of the same data
MaxPasses == 2

\* ------------------------------------------------------- program constants
\* np.timedelta64(10, "m"): the default dupe_window, in minutes
DupeWindow == 10

\* sat_id values of the observations (process(): "a" -> 3, "b" -> 4)
SatIds == {3, 4}
\* observation times in minutes: gaps of 3, 5, 7 (< window), 10 (= window),
\* 12 and 15 (> window)
Times == {0, 3, 10, 15}

\* ------------------------------------------------------------ sequences
Abs(x) == IF x < 0 THEN -x ELSE x

SeqsUpTo(S, n) == UNION {[1..k -> S] : k \in 0..n}

\* the elements of s whose mask entry is TRUE, in order: s[mask]
Sel(s, mask) ==
    LET F[i \in 0..Len(s)] ==
            IF i = 0 THEN <<>>
            ELSE IF mask[i] THEN Append(F[i-1], s[i]) ELSE F[i-1]
    IN  F[Len(s)]

\* the lexicographic order of two key tuples of equal length
LexLess(a, b) ==
    \E i \in 1..Len(a) : a[i] < b[i] /\ \A j \in 1..(i-1) : a[j] = b[j]

\* np.lexsort: the stable permutation (1-based positions) that puts the rows
\* in ascending order of their key tuples
Lexsort(keys) ==
    LET F[i \in 0..Len(keys)] ==
            IF i = 0 THEN <<>>
            ELSE LET p == F[i-1]
                     k == Cardinality({j \in 1..Len(p) : ~LexLess(keys[i], keys[p[j]])})
                 IN  SubSeq(p, 1, k) \o <<i>> \o SubSeq(p, k+1, Len(p))
    IN  F[Len(keys)]

\* s.isel(idx): the elements of s at the 1-based positions idx
Take(s, idx) == [k \in 1..Len(idx) |-> s[idx[k]]]

\* ---------------------------------------------------------------- dedup
\* one observation of an indexed ragged array
Obs == [sat_id : SatIds, locationIndex : 0..MaxLoc, time : Times]

\* data.sortby(["sat_id", "locationIndex", "time"])
SortbySatLocTime(data) ==
    Take(data, Lexsort([i \in 1..Len(data) |->
                            <<data[i].sat_id, data[i].locationIndex, data[i].time>>]))

\* the mutant of DuplMask: the signed difference instead of abs()
DuplMaskSigned(data, window) ==
    [i \in 1..Len(data) |->
        IF i = 1 THEN FALSE
        ELSE data[i].time - data[i-1].time < window]

\* np.insert(abs(time[1:] - time[:-1]) < dupe_window, 0, False)
DuplMask(data, window) ==
    [i \in 1..Len(data) |->
        IF i = 1 THEN FALSE
        ELSE Abs(data[i].time - data[i-1].time) < window]

\* data.sel(obs=~dupl)
DropDupl(data, mask) == Sel(data, [i \in 1..Len(data) |-> ~mask[i]])

DedupInit ==
    /\ ds \in SeqsUpTo(Obs, MaxObs)
    /\ prev = <<>>
    /\ compared = <<>>
    /\ dupl = <<>>
    /\ passes = 0
    /\ op = "none"

\* CellFileCollectionStack.read on the merged dataset ds: sort, then dedup
StackReadDedup ==
    /\ passes < MaxPasses
    /\ op \in {"none", "read"}
    /\ LET data == SortbySatLocTime(ds)
           mask == DuplMask(data, DupeWindow)
       IN  /\ compared' = data
           /\ dupl' = mask
           /\ ds' = DropDupl(data, mask)
    /\ prev' = ds
    /\ passes' = passes + 1
    /\ op' = "read"
    /\ UNCHANGED <<codec_vars, coll_vars, stack_vars, merge_vars, swath_vars,
                   meta_vars, pool_vars, budget_vars>>

\* SwathFileCollection._cell_data_as_indexed_ra on the observations ds of one
\* cell, in buffer order: the dedup runs on the order the data arrives in
CellDataAsIndexedRa ==
    /\ passes = 0
    /\ op = "none"
    /\ LET mask == DuplMask(ds, DupeWindow)
       IN  /\ compared' = ds
           /\ dupl' = mask
           /\ ds' = DropDupl(ds, mask)
    /\ prev' = ds
    /\ passes' = passes + 1
    /\ op' = "cell_ra"
    /\ UNCHANGED <<codec_vars, coll_vars, stack_vars, merge_vars, swath_vars,
                   meta_vars, pool_vars, budget_vars>>

DedupNext == StackReadDedup \/ CellDataAsIndexedRa

DedupSpecInit == DedupInit /\ CodecIdle /\ CollIdle /\ StackIdle /\ MergeIdle /\ SwathIdle
    /\ MetaIdle /\ PoolIdle /\ BudgetIdle

DedupSpec == DedupSpecInit /\ [][DedupNext]_vars

\* ------------------------------------------------------ claims on dedup
\* the position in ds of the kept observation i of compared
KeptRank(i) == Cardinality({j \in 1..i : ~dupl[j]})

IsPermutation(s, t) ==
    /\ Len(s) = Len(t)
    /\ \A k \in 1..Len(s) :
        Cardinality({i \in 1..Len(s) : s[i] = s[k]})
            = Cardinality({i \in 1..Len(t) : t[i] = s[k]})

\* a sorts before b in (sat_id, locationIndex, time) order
Before(a, b) ==
    \/ a.sat_id < b.sat_id
    \/ /\ a.sat_id = b.sat_id
       /\ \/ a.locationIndex < b.locationIndex
          \/ a.locationIndex = b.locationIndex /\ a.time < b.time

IsSortedSatLocTime(s) ==
    \A i \in 1..Len(s), j \in 1..Len(s) : i < j => ~Before(s[j], s[i])

TimesOf(s) == [i \in 1..Len(s) |-> s[i].time]

OneLocation(s) ==
    \A i \in 1..Len(s), j \in 1..Len(s) :
        s[i].sat_id = s[j].sat_id /\ s[i].locationIndex = s[j].locationIndex

\* C1 as stated: after the sort of a stack read, observation i is dropped iff
\* the signed difference time[i] - time[i-1] to its immediate predecessor is
\* below the window.
C1_SignedDifference ==
    op = "read" =>
        \A i \in 1..Len(compared) :
            dupl[i] <=> (i >= 2 /\ compared[i].time - compared[i-1].time < DupeWindow)

\* C1 amended: a stack read sorts by (sat_id, locationIndex, time); observation
\* i >= 1 of the sorted order is dropped iff |time[i] - time[i-1]| < dupe_window,
\* i-1 being its immediate predecessor whether or not that one is dropped;
\* observation 0 is never dropped; the result is the kept observations in
\* sorted order; one location with times [0, 3, 15] gives [0, 15].
C1_AdjacentPairDedup ==
    op = "read" =>
        /\ IsPermutation(compared, prev)
        /\ IsSortedSatLocTime(compared)
        /\ Len(dupl) = Len(compared)
        /\ \A i \in 1..Len(compared) :
            dupl[i] <=> (i >= 2 /\ Abs(compared[i].time - compared[i-1].time) < DupeWindow)
        /\ Len(ds) = KeptRank(Len(compared))
        /\ \A i \in 1..Len(compared) : ~dupl[i] => ds[KeptRank(i)] = compared[i]
        /\ (OneLocation(prev) /\ IsPermutation(TimesOf(compared), <<0, 3, 15>>)
                => TimesOf(ds) = <<0, 15>>)

\* the literal scenario: one location, times [0, 3, 15], result [0, 15]
C1_Witness ==
    /\ op = "read"
    /\ passes = 1
    /\ OneLocation(prev)
    /\ TimesOf(prev) = <<15, 0, 3>>
    /\ TimesOf(ds) = <<0, 15>>

\* C2: a dedup pass (stack read or per-cell swath write) never drops an
\* observation whose immediate predecessor in the compared order belongs to
\* another location or another satellite.
C2_SameLocationOnly ==
    op # "none" =>
        \A i \in 2..Len(compared) :
            (\/ compared[i].sat_id # compared[i-1].sat_id
             \/ compared[i].locationIndex # compared[i-1].locationIndex)
                => ~dupl[i]

\* C3: a stack read of data that is sorted and is the output of a dedup pass
\* with the same window drops no observation.
C3_Idempotent ==
    (op = "read" /\ passes >= 2) => Len(ds) = Len(prev)

IsSortedLocTime(s) ==
    \A i \in 1..Len(s), j \in 1..Len(s) :
        i < j => \/ s[i].locationIndex < s[j].locationIndex
                 \/ s[i].locationIndex = s[j].locationIndex /\ s[i].time <= s[j].time

\* C23: the per-cell swath write sorts the observations of the cell by
\* (locationIndex, time) before the adjacent-pair dedup: the order the dedup
\* compares in and the data handed to the append-write are both ordered by
\* (locationIndex, time).
C23_CellWriteSortsBeforeDedup ==
    op = "cell_ra" =>
        /\ IsPermutation(compared, prev)
        /\ IsSortedLocTime(compared)
        /\ IsSortedLocTime(ds)

\* ---------------------------------------------------------------- codec
\* most locations of a codec dataset
MaxLocs == 3
\* most observations of a codec dataset
MaxCodecObs == 3
\* most conversions applied in a row
MaxSteps == 2

\* observation times of the codec datasets
CodecTimes == {0, 1}

\* one observation: id is its position in the dataset the run started from
CodecObs == [id : 1..MaxCodecObs, time : CodecTimes]

Sum(s) ==
    LET F[i \in 0..Len(s)] == IF i = 0 THEN 0 ELSE F[i-1] + s[i]
    IN  F[Len(s)]

\* the elements of the finite set of integers S in ascending order
SortedSeqOfSet(S) ==
    CHOOSE f \in [1..Cardinality(S) -> S] :
        \A i \in 1..Cardinality(S), j \in 1..Cardinality(S) : i < j => f[i] < f[j]

Range(s) == {s[i] : i \in 1..Len(s)}

\* np.repeat(a, repeats): a[i] repeated repeats[i] times
Repeat(a, repeats) ==
    LET F[i \in 0..Len(a)] ==
            IF i = 0 THEN <<>>
            ELSE F[i-1] \o [k \in 1..repeats[i] |-> a[i]]
    IN  F[Len(a)]

\* np.arange(n)
Arange(n) == [i \in 1..n |-> i - 1]

\* np.unique(v, return_counts=True): the sorted distinct values and how often
\* each occurs
UniqueCounts(v) ==
    LET idxs == SortedSeqOfSet(Range(v))
    IN  [idxs  |-> idxs,
         sizes |-> [k \in 1..Len(idxs) |->
                        Cardinality({i \in 1..Len(v) : v[i] = idxs[k]})]]

\* the mutant of RowSizeOf: the counts of the occurring locations only
\* (np.unique(locationIndex, return_counts=True)[1])
RowSizeNoGaps(locationIndex, n) == UniqueCounts(locationIndex).sizes

\* row_size = np.zeros_like(location_id); row_size[idxs] = sizes
RowSizeOf(locationIndex, n) ==
    LET u == UniqueCounts(locationIndex)
    IN  [i \in 1..n |->
            IF \E k \in 1..Len(u.idxs) : u.idxs[k] = i - 1
            THEN u.sizes[CHOOSE k \in 1..Len(u.idxs) : u.idxs[k] = i - 1]
            ELSE 0]

\* the rows of an indexed dataset: an observation with its locationIndex
IndexedRows(d) ==
    [i \in 1..Len(d.obs) |-> [locationIndex |-> d.locationIndex[i], obs |-> d.obs[i]]]

\* the mutant of SortbyLocTime: a sort by locationIndex alone
SortbyLocOnly(rows) ==
    Take(rows, Lexsort([i \in 1..Len(rows) |-> <<rows[i].locationIndex>>]))

\* dataset.sortby(["locationIndex", "time"])
SortbyLocTime(rows) ==
    Take(rows, Lexsort([i \in 1..Len(rows) |->
                            <<rows[i].locationIndex, rows[i].obs.time>>]))

\* indexed_to_contiguous, behind its checks
IndexedToContiguousDs(d) ==
    LET rows == SortbyLocTime(IndexedRows(d))
        locationIndex == [i \in 1..Len(rows) |-> rows[i].locationIndex]
    IN  [vars          |-> (d.vars \ {"locationIndex"}) \cup {"row_size"},
         row_size      |-> RowSizeOf(locationIndex, Len(d.location_id)),
         locationIndex |-> <<>>,
         location_id   |-> d.location_id,
         obs           |-> [i \in 1..Len(rows) |-> rows[i].obs]]

\* the mutant of LocationIndexOf: positions counted from 1
LocationIndexFromOne(row_size) ==
    Repeat([i \in 1..Len(row_size) |-> i],
           [i \in 1..Len(row_size) |-> IF row_size[i] > 0 THEN row_size[i] ELSE 0])

\* np.repeat(np.arange(row_size.size), np.where(row_size > 0, row_size, 0))
LocationIndexOf(row_size) ==
    Repeat(Arange(Len(row_size)),
           [i \in 1..Len(row_size) |-> IF row_size[i] > 0 THEN row_size[i] ELSE 0])

\* contiguous_to_indexed, behind its checks
ContiguousToIndexedDs(d) ==
    [vars          |-> (d.vars \ {"row_size"}) \cup {"locationIndex"},
     row_size      |-> <<>>,
     locationIndex |-> LocationIndexOf(d.row_size),
     location_id   |-> d.location_id,
     obs           |-> d.obs]

\* the observations of a fresh dataset: ids in order, any times
FreshObs(m) == {o \in [1..m -> CodecObs] : \A i \in 1..m : o[i].id = i}

LocationIds(n) == [i \in 1..n |-> 100 + i]

\* contiguous datasets: row_size counts the observations of each location
ContiguousDatasets ==
    {[vars |-> {"row_size"}, row_size |-> r, locationIndex |-> <<>>,
      location_id |-> LocationIds(Len(r)), obs |-> o] :
        r \in {q \in SeqsUpTo(0..MaxCodecObs, MaxLocs) : Sum(q) <= MaxCodecObs},
        o \in UNION {FreshObs(m) : m \in 0..MaxCodecObs}}

\* indexed datasets: locationIndex points into the locations, in any order
IndexedDatasets(n) ==
    {[vars |-> {"locationIndex"}, row_size |-> <<>>, locationIndex |-> l,
      location_id |-> LocationIds(n), obs |-> o] :
        l \in SeqsUpTo(0..(n-1), MaxCodecObs),
        o \in UNION {FreshObs(m) : m \in 0..MaxCodecObs}}

\* datasets that hold neither row_size nor locationIndex
BareDatasets ==
    {[vars |-> {}, row_size |-> <<>>, locationIndex |-> <<>>,
      location_id |-> LocationIds(n), obs |-> <<>>] : n \in 0..MaxLocs}

CodecInit ==
    /\ x0 \in {d \in ContiguousDatasets : Sum(d.row_size) = Len(d.obs)}
              \cup {d \in UNION {IndexedDatasets(n) : n \in 0..MaxLocs} :
                        Len(d.locationIndex) = Len(d.obs)}
              \cup BareDatasets
    /\ cds = x0
    /\ steps = <<>>
    /\ cerr = "none"

\* the mutant of HasVariable: every variable counts as present
HasVariableAlways(d, name) == TRUE

\* "locationIndex" in dataset, "row_size" in dataset
HasVariable(d, name) == name \in d.vars

\* indexed_to_contiguous(dataset)
indexed_to_contiguous ==
    /\ Len(steps) < MaxSteps
    /\ cerr = "none"
    /\ IF ~HasVariable(cds, "locationIndex")
       THEN /\ cerr' = "ValueError"
            /\ cds' = cds
       ELSE /\ cerr' = "none"
            /\ cds' = IndexedToContiguousDs(cds)
    /\ steps' = Append(steps, "indexed_to_contiguous")
    /\ x0' = x0
    /\ UNCHANGED <<dedup_vars, coll_vars, stack_vars, merge_vars, swath_vars,
                   meta_vars, pool_vars, budget_vars>>

\* contiguous_to_indexed(dataset)
contiguous_to_indexed ==
    /\ Len(steps) < MaxSteps
    /\ cerr = "none"
    /\ IF ~HasVariable(cds, "row_size")
       THEN /\ cerr' = "ValueError"
            /\ cds' = cds
       ELSE /\ cerr' = "none"
            /\ cds' = ContiguousToIndexedDs(cds)
    /\ steps' = Append(steps, "contiguous_to_indexed")
    /\ x0' = x0
    /\ UNCHANGED <<dedup_vars, coll_vars, stack_vars, merge_vars, swath_vars,
                   meta_vars, pool_vars, budget_vars>>

CodecNext == indexed_to_contiguous \/ contiguous_to_indexed

CodecSpecInit == CodecInit /\ DedupIdle /\ CollIdle /\ StackIdle /\ MergeIdle /\ SwathIdle
    /\ MetaIdle /\ PoolIdle /\ BudgetIdle

CodecSpec == CodecSpecInit /\ [][CodecNext]_vars

\* ------------------------------------------------------ claims on the codec
\* the observations of location i (1-based) of a contiguous dataset
Block(d, i) ==
    LET offset == Sum(SubSeq(d.row_size, 1, i - 1))
    IN  SubSeq(d.obs, offset + 1, offset + d.row_size[i])

IsTimeSorted(o) ==
    \A i \in 1..Len(o), j \in 1..Len(o) : i < j => o[i].time <= o[j].time

\* sorted by time, observations of equal time in the order of their ids
IsStablyTimeSorted(o) ==
    \A i \in 1..Len(o), j \in 1..Len(o) :
        i < j => \/ o[i].time < o[j].time
                 \/ o[i].time = o[j].time /\ o[i].id < o[j].id

\* a well-formed contiguous dataset: row_size present, non-negative and
\* summing to the number of observations
WellFormedContiguous(d) ==
    /\ d.vars = {"row_size"}
    /\ \A i \in 1..Len(d.row_size) : d.row_size[i] >= 0
    /\ Sum(d.row_size) = Len(d.obs)

RoundTripDone ==
    /\ WellFormedContiguous(x0)
    /\ steps = <<"contiguous_to_indexed", "indexed_to_contiguous">>
    /\ cerr = "none"

\* C4 as stated: indexed_to_contiguous(contiguous_to_indexed(x)) has the
\* row_size of x and, per location, the observations of x in the order of x.
C4_RoundTripSameOrder ==
    RoundTripDone =>
        /\ cds.row_size = x0.row_size
        /\ \A i \in 1..Len(x0.row_size) : Block(cds, i) = Block(x0, i)

\* C4 amended: the round trip keeps row_size and, per location, the same
\* observations, ordered by time with observations of equal time in the order
\* of x; the order is that of x wherever x is in time order within the
\* location.
C4_RoundTripTimeOrder ==
    RoundTripDone =>
        /\ cds.vars = {"row_size"}
        /\ cds.row_size = x0.row_size
        /\ cds.location_id = x0.location_id
        /\ \A i \in 1..Len(x0.row_size) :
            /\ IsPermutation(Block(cds, i), Block(x0, i))
            /\ IsStablyTimeSorted(Block(cds, i))
            /\ IsTimeSorted(Block(x0, i)) => Block(cds, i) = Block(x0, i)

\* a round trip of a dataset with two locations, one of them out of time order
C4_Witness ==
    /\ RoundTripDone
    /\ \E i \in 1..Len(x0.row_size) : ~IsTimeSorted(Block(x0, i))
    /\ \E i \in 1..Len(x0.row_size) : x0.row_size[i] > 0 /\ IsTimeSorted(Block(x0, i))

IndexedConverted ==
    /\ x0.vars = {"locationIndex"}
    /\ steps = <<"indexed_to_contiguous">>
    /\ cerr = "none"

\* C5: indexed_to_contiguous on N locations and M observations, sorted or
\* not, returns row_size of length N with row_size[i] the number of
\* observations of location i (0 without observations), sum(row_size) = M, and
\* the observations grouped by ascending locationIndex, block i holding the
\* row_size[i] observations of location i.
C5_RowSizeCounts ==
    IndexedConverted =>
        /\ Len(cds.row_size) = Len(x0.location_id)
        /\ \A i \in 1..Len(cds.row_size) :
            cds.row_size[i]
                = Cardinality({k \in 1..Len(x0.locationIndex) : x0.locationIndex[k] = i - 1})
        /\ Sum(cds.row_size) = Len(x0.obs)
        /\ IsPermutation(cds.obs, x0.obs)
        /\ \A i \in 1..Len(cds.row_size) :
            /\ Len(Block(cds, i)) = cds.row_size[i]
            /\ \A k \in 1..Len(Block(cds, i)) :
                x0.locationIndex[Block(cds, i)[k].id] = i - 1

\* an unsorted indexed dataset with a location without observations
C5_Witness ==
    /\ IndexedConverted
    /\ x0.locationIndex = <<2, 0, 2>>
    /\ cds.row_size = <<1, 0, 2>>

ContiguousConverted ==
    /\ WellFormedContiguous(x0)
    /\ steps = <<"contiguous_to_indexed">>
    /\ cerr = "none"

\* C6: contiguous_to_indexed returns a locationIndex in which position i of
\* [0, N) appears exactly row_size[i] times, consecutively and in ascending
\* order of i; every value lies in [0, N) and there are sum(row_size) = M
\* entries.
C6_LocationIndexRepeats ==
    ContiguousConverted =>
        /\ cds.vars = {"locationIndex"}
        /\ \A i \in 1..Len(x0.row_size) :
            Cardinality({k \in 1..Len(cds.locationIndex) : cds.locationIndex[k] = i - 1})
                = x0.row_size[i]
        /\ \A j \in 1..Len(cds.locationIndex), k \in 1..Len(cds.locationIndex) :
            j < k => cds.locationIndex[j] <= cds.locationIndex[k]
        /\ \A k \in 1..Len(cds.locationIndex) :
            cds.locationIndex[k] \in 0..(Len(x0.row_size) - 1)
        /\ Len(cds.locationIndex) = Sum(x0.row_size)
        /\ Len(cds.locationIndex) = Len(cds.obs)

\* three locations, the middle one without observations
C6_Witness ==
    /\ ContiguousConverted
    /\ x0.row_size = <<2, 0, 1>>
    /\ cds.locationIndex = <<0, 0, 2>>

\* ------------------------------------------------------------- the grid
\* number of grid points (location ids 0..NumGpis-1, on a line)
NumGpis == 3
\* number of member collections of the stack
NumColls == 2

Gpis == 0..(NumGpis - 1)

\* the grid_cell_size of a collection, and the search_cell_size of a read:
\* the number of consecutive grid points one cell holds
CellSizes == {1, 2}

\* grid.to_cell_grid(size).arrcell: the cell of every grid point
ArrCell(size) == [g \in Gpis |-> g \div size]

\* grid.grid_points_for_cell(cell)[0].compressed() on the grid tiled by size
GridPointsForCell(cell, size) ==
    SortedSeqOfSet({g \in Gpis : ArrCell(size)[g] = cell})

\* ------------------------------------------------- CellFileCollection
\* self.min_cell and self.max_cell, taken from the ioclass
min_cell == 0
max_cell == 2

None == "None"

\* out_cell_size=None and search_cell_size=None; a given size s is <<s>>
NoSize == <<>>

\* cell_lut = None
NoLut == <<>>

\* set(cell)
CellSet(cell) == Range(cell)

\* the cell arguments of a read: one cell, in the grid or just outside it, or
\* a list of two cells of the grid
CellArgs ==
    {<<c>> : c \in (min_cell - 1)..(max_cell + 1)}
        \cup {<<a, b>> : a \in min_cell..max_cell, b \in min_cell..max_cell}

\* the mutant of CellInGrid: max_cell itself is refused
CellInGridExclusive(c) == ~((c >= max_cell) \/ (c < min_cell))

\* get_cell_path raises for a cell outside [min_cell, max_cell]
CellInGrid(c) == ~((c > max_cell) \/ (c < min_cell))

\* A cache record [fid, previous_cell, n_open, events] is the cache of a
\* collection while a call runs, with the I/O events the call has caused.

\* CellFileCollection.close
CloseFid(c) ==
    IF c.fid # None
    THEN [c EXCEPT !.fid = None, !.n_open = @ - 1, !.events = Append(@, "close")]
    ELSE c

\* the else branch of the try in _open: the handle is kept and remembered
OpenSucceeded(c, cell) ==
    [c EXCEPT !.fid = cell, !.previous_cell = cell, !.n_open = @ + 1,
              !.events = Append(@, "open")]

\* the mutant of OpenFailed: previous_cell is not reset
OpenFailedKeepsPrevious(c) ==
    [c EXCEPT !.fid = None, !.events = @ \o <<"open_failed", "warn">>]

\* the except branch of the try in _open
OpenFailed(c) ==
    [c EXCEPT !.fid = None, !.previous_cell = None,
              !.events = @ \o <<"open_failed", "warn">>]

\* _open(cell=cell) behind get_cell_path; io_ok: the ioclass opens the files
OpenCells(c, cell, io_ok) ==
    IF (c.previous_cell = None) \/ CellSet(c.previous_cell) # CellSet(cell)
    THEN IF io_ok THEN OpenSucceeded(CloseFid(c), cell)
                  ELSE OpenFailed(CloseFid(c))
    ELSE c

\* the success flag _open returns
OpenSuccess(c) == "open_failed" \notin Range(c.events)

CurrentCache == [fid |-> fid, previous_cell |-> previous_cell,
                 n_open |-> n_open, events |-> <<>>]

NoFailure == [pending |-> FALSE, was_open |-> None]

CollInit ==
    /\ fid = None
    /\ previous_cell = None
    /\ n_open = 0
    /\ failure = NoFailure
    /\ last = [op |-> "init", cell |-> <<>>, result |-> "none", events |-> <<>>,
               fid_before |-> None, previous_before |-> None,
               after_failure |-> NoFailure]
    /\ grid_cell_size \in CellSizes
    /\ lookup = [out_cell_size |-> NoSize, cell_lut |-> NoLut]

\* the mutant of OpenRaised: the old handle is closed before the file names
\* are resolved
OpenRaisedAfterClose(c) == CloseFid(c)

\* _open when get_cell_path raises: the file names are resolved before the
\* comparison with previous_cell and before close()
OpenRaised(c) == c

\* CellFileCollection.read(cell=cell) for a cell outside the grid:
\* get_cell_path raises ValueError before the cache is touched
ReadCellOutOfGrid(cell) ==
    /\ \E i \in 1..Len(cell) : ~CellInGrid(cell[i])
    /\ LET c == OpenRaised(CurrentCache)
       IN  /\ fid' = c.fid
           /\ previous_cell' = c.previous_cell
           /\ n_open' = c.n_open
           /\ last' = [op |-> "read", cell |-> cell, result |-> "ValueError",
                       events |-> c.events, fid_before |-> fid,
                       previous_before |-> previous_cell, after_failure |-> failure]
    /\ UNCHANGED <<failure, lookup_vars>>
    /\ UNCHANGED <<dedup_vars, codec_vars, stack_vars, merge_vars, swath_vars,
                   meta_vars, pool_vars, budget_vars>>

\* CellFileCollection.read(cell=cell): _read_cell, _open, fid.read
ReadCell(cell, io_ok) ==
    /\ \A i \in 1..Len(cell) : CellInGrid(cell[i])
    /\ LET c == OpenCells(CurrentCache, cell, io_ok)
       IN  /\ fid' = c.fid
           /\ previous_cell' = c.previous_cell
           /\ n_open' = c.n_open
           /\ failure' = IF OpenSuccess(c) THEN NoFailure
                         ELSE [pending |-> TRUE, was_open |-> fid]
           /\ last' = [op |-> "read", cell |-> cell,
                       result |-> IF ~OpenSuccess(c) THEN "None"
                                  ELSE IF c.fid = None THEN "AttributeError"
                                  ELSE "data",
                       events |-> c.events, fid_before |-> fid,
                       previous_before |-> previous_cell,
                       after_failure |-> failure]
    /\ UNCHANGED lookup_vars
    /\ UNCHANGED <<dedup_vars, codec_vars, stack_vars, merge_vars, swath_vars,
                   meta_vars, pool_vars, budget_vars>>

\* the location ids of a read: those of the grid and one beyond its last cell
LocationArgs == 0..(max_cell + 1)

\* grid.gpi2cell(location_id)
gpi2cell(location_id) == location_id \div grid_cell_size

\* CellFileCollection.read(location_id=...): _read_location_id, _open with
\* the cell of the location, fid.read
ReadLocationId(location_id, io_ok) ==
    /\ LET cell == <<gpi2cell(location_id)>>
           c == IF CellInGrid(cell[1]) THEN OpenCells(CurrentCache, cell, io_ok)
                ELSE OpenRaised(CurrentCache)
       IN  /\ fid' = c.fid
           /\ previous_cell' = c.previous_cell
           /\ n_open' = c.n_open
           /\ failure' = IF ~CellInGrid(cell[1]) THEN failure
                         ELSE IF OpenSuccess(c) THEN NoFailure
                         ELSE [pending |-> TRUE, was_open |-> fid]
           /\ last' = [op |-> "read", cell |-> cell,
                       result |-> IF ~CellInGrid(cell[1]) THEN "ValueError"
                                  ELSE IF ~OpenSuccess(c) THEN "None"
                                  ELSE IF c.fid = None THEN "AttributeError"
                                  ELSE "data",
                       events |-> c.events, fid_before |-> fid,
                       previous_before |-> previous_cell,
                       after_failure |-> failure,
                       location_id |-> <<location_id>>]
    /\ UNCHANGED lookup_vars
    /\ UNCHANGED <<dedup_vars, codec_vars, stack_vars, merge_vars, swath_vars,
                   meta_vars, pool_vars, budget_vars>>

\* CellFileCollection.close()
Close ==
    /\ LET c == CloseFid(CurrentCache)
       IN  /\ fid' = c.fid
           /\ n_open' = c.n_open
           /\ last' = [op |-> "close", cell |-> <<>>, result |-> "none",
                       events |-> c.events, fid_before |-> fid,
                       previous_before |-> previous_cell,
                       after_failure |-> failure]
    /\ UNCHANGED <<previous_cell, failure, lookup_vars>>
    /\ UNCHANGED <<dedup_vars, codec_vars, stack_vars, merge_vars, swath_vars,
                   meta_vars, pool_vars, budget_vars>>

\* ------------------------------------------- claims on the handle cache
\* a read that got past get_cell_path
ReadInGrid == last.op = "read" /\ last.result # "ValueError"

\* the requested cell set equals the set of the handle that is open
RequestIsOpen ==
    last.fid_before # None /\ CellSet(last.fid_before) = CellSet(last.cell)

\* C7: a read compares the requested cell set, as an unordered set, with the
\* currently open set: if equal the handle is reused and nothing is closed or
\* opened; otherwise the old handle is closed before the new one is opened; at
\* most one handle set is open at any time.
C7_ReuseOrCloseThenOpen ==
    /\ n_open <= 1
    /\ ReadInGrid =>
        IF RequestIsOpen
        THEN /\ last.events = <<>>
             /\ fid = last.fid_before
             /\ last.result = "data"
        ELSE /\ last.events \in {<<"close", "open">>, <<"open">>,
                                 <<"close", "open_failed", "warn">>,
                                 <<"open_failed", "warn">>}
             /\ (last.events[1] = "close") <=> (last.fid_before # None)

OpenFailedInLastRead == last.op = "read" /\ "open_failed" \in Range(last.events)

\* C8: a read whose open fails with an I/O error does not raise: it warns,
\* returns None, leaves no handle and no remembered cell set, and the next
\* read of any cell of the grid, the one open before the failure included,
\* opens afresh.
C8_OpenFailureNonFatal ==
    /\ OpenFailedInLastRead =>
        /\ last.result = "None"
        /\ "warn" \in Range(last.events)
        /\ fid = None
        /\ previous_cell = None
        /\ n_open = 0
    /\ (ReadInGrid /\ last.after_failure.pending) =>
        /\ last.events # <<>>
        /\ last.events[1] \in {"open", "open_failed"}
        /\ last.result \in {"data", "None"}
        /\ last.result = "data" => fid = last.cell /\ previous_cell = last.cell

\* the read after a failed open asks for the cell set that was open before the
\* failure, and gets it from a fresh open
C8_Witness ==
    /\ ReadInGrid
    /\ last.after_failure.pending
    /\ last.after_failure.was_open # None
    /\ CellSet(last.after_failure.was_open) = CellSet(last.cell)
    /\ last.events = <<"open">>
    /\ last.result = "data"

\* C26: whenever _open reports success in a read, after any sequence of
\* reads and closes, the collection holds an open handle for exactly the
\* requested cell set and the read returns the data; so read(cell=c),
\* close(), read(cell=c) reopens the shard.
C26_SuccessMeansOpenHandle ==
    (ReadInGrid /\ last.result # "None") =>
        /\ fid # None
        /\ CellSet(fid) = CellSet(last.cell)
        /\ last.result = "data"

\* some requested cell lies outside [min_cell, max_cell]
OutsideGrid(cell) == \E i \in 1..Len(cell) : cell[i] < min_cell \/ cell[i] > max_cell

\* two values of fid or previous_cell are the same: both None or the same list
SameCells(a, b) == IF a = None THEN b = None ELSE (b # None /\ a = b)

\* C30: a read, by cell or by location id, raises ValueError exactly when
\* the resolved cell lies outside [min_cell, max_cell], and then leaves the
\* handle cache as it was: the open handle stays open and the remembered
\* cell set is unchanged, all of it without I/O; a read of the open cell set
\* that follows reuses the handle without reopening.
C30_OutOfGridReadKeepsCache ==
    [][/\ last'.op = "read" =>
            (last'.result = "ValueError" <=> OutsideGrid(last'.cell))
       /\ (last'.op = "read" /\ last'.result = "ValueError") =>
            /\ SameCells(fid, fid')
            /\ SameCells(previous_cell, previous_cell')
            /\ n_open' = n_open
            /\ last'.events = <<>>
       /\ (/\ last.op = "read" /\ last.result = "ValueError"
           /\ fid # None
           /\ last'.op = "read" /\ CellSet(last'.cell) = CellSet(fid)) =>
            /\ last'.events = <<>>
            /\ last'.result = "data"
            /\ SameCells(fid, fid')]_vars

\* a read by location id that resolved to a cell beyond max_cell while a
\* handle was open: the handle is still open and remembered
C30_Witness ==
    /\ last.op = "read" /\ last.result = "ValueError"
    /\ "location_id" \in DOMAIN last
    /\ last.cell = <<max_cell + 1>>
    /\ fid # None
    /\ fid = last.fid_before
    /\ previous_cell = fid
    /\ n_open = 1

\* --------------------------------------------- CellFileCollectionStack
\* the observation time of the shards of collection i
ShardTime(i) == 3 * (i - 1)

\* a shard file of collection i holding the locations ids: an indexed ragged
\* array with location_id ascending and one observation per location, the
\* observations stored in descending order of location
ShardOf(ids, i) ==
    LET loc == SortedSeqOfSet(ids)
    IN  [location_id |-> loc,
         obs |-> [k \in 1..Len(loc) |->
                    [sat_id |-> 3, locationIndex |-> Len(loc) - k,
                     time |-> ShardTime(i)]]]

\* the cell files a collection of cell size `size` can have: any set of
\* cells, each file holding some grid points of its cell
CellFiles(size) ==
    LET cells == {ArrCell(size)[g] : g \in Gpis}
        files == UNION {[cs -> (SUBSET Gpis) \ {{}}] : cs \in SUBSET cells}
    IN  {[grid_cell_size |-> size, files |-> f] :
            f \in {h \in files : \A c \in DOMAIN h :
                        h[c] \subseteq Range(GridPointsForCell(c, size))}}

\* CellFileCollection.__init__ of member i: the cell size of its ioclass and
\* its shard files
MakeCollection(config, i) ==
    [grid_cell_size |-> config.grid_cell_size,
     shards |-> [c \in DOMAIN config.files |-> ShardOf(config.files[c], i)]]

\* cells_in_collection: the cells that have a file
CellsInCollection(coll) == DOMAIN coll.shards

\* the mutant of CellLut: every target cell maps to the native cell of its
\* own number
CellLutSameNumber(coll, out_cell_size) ==
    [new_cell \in {ArrCell(out_cell_size)[g] : g \in Gpis} |-> {new_cell}]

\* create_cell_lookup(out_cell_size): cell_lut
CellLut(coll, out_cell_size) ==
    LET old_cells == ArrCell(coll.grid_cell_size)
        new_cells == ArrCell(out_cell_size)
    IN  [new_cell \in {new_cells[g] : g \in Gpis} |->
            {old_cells[g] : g \in {h \in Gpis : new_cells[h] = new_cell}}]

\* the value None where a dataset is expected
NoneDs == [none |-> TRUE]

\* coll.read(cell=cell): the data of the shard, None if there is no file
CollReadCell(coll, cell) ==
    IF cell \in CellsInCollection(coll) THEN coll.shards[cell] ELSE NoneDs

\* np.searchsorted(a, v): the 0-based position of v in the ascending a
SearchSorted(a, v) == Cardinality({i \in 1..Len(a) : a[i] < v})

\* np.intersect1d(a, b, assume_unique=True)
Intersect1d(a, b) == SortedSeqOfSet(Range(a) \cap Range(b))

\* _trim_to_gpis(ds, gpis)
TrimToGpis(dataset, gpis) ==
    IF dataset = NoneDs THEN NoneDs
    ELSE LET g == Intersect1d(gpis, dataset.location_id)
             locations_idx == [k \in 1..Len(g) |-> SearchSorted(dataset.location_id, g[k])]
             obs_idx == [i \in 1..Len(dataset.obs) |->
                            dataset.obs[i].locationIndex \in Range(locations_idx)]
         IN  [location_id |-> [k \in 1..Len(locations_idx) |->
                                    dataset.location_id[locations_idx[k] + 1]],
              obs |-> Sel(dataset.obs, obs_idx)]

Concat(ss) ==
    LET F[i \in 0..Len(ss)] == IF i = 0 THEN <<>> ELSE F[i-1] \o ss[i]
    IN  F[Len(ss)]

\* [ds for ds in data if ds is not None]
NotNone(data) == Sel(data, [i \in 1..Len(data) |-> data[i] # NoneDs])

\* the list data of _read_cells: the shards read for the search cell, trimmed
\* if a search_cell_size is given
ReadCellsData(colls, cell, search_cell_size) ==
    LET PerColl(coll) ==
            IF search_cell_size # NoSize
            THEN LET old_cells ==
                        SortedSeqOfSet(CellLut(coll, search_cell_size[1])[cell]
                                            \cap CellsInCollection(coll))
                 IN  [k \in 1..Len(old_cells) |->
                        TrimToGpis(CollReadCell(coll, old_cells[k]),
                                   GridPointsForCell(old_cells[k], coll.grid_cell_size))]
            ELSE <<CollReadCell(coll, cell)>>
    IN  NotNone(Concat([i \in 1..Len(colls) |-> PerColl(colls[i])]))

\* the mutant of UniqueIndex: every position, nothing merged
EveryIndex(v) == [k \in 1..Len(v) |-> k - 1]

\* np.unique(v, return_index=True)[1]: for every distinct value, in ascending
\* order, the 0-based position of its first occurrence
UniqueIndex(v) ==
    LET vals == SortedSeqOfSet(Range(v))
    IN  [k \in 1..Len(vals) |->
            (CHOOSE i \in 1..Len(v) :
                v[i] = vals[k] /\ \A j \in 1..(i-1) : v[j] # vals[k]) - 1]

\* np.argsort(v), 0-based
Argsort(v) ==
    LET p == Lexsort([i \in 1..Len(v) |-> <<v[i]>>])
    IN  [k \in 1..Len(p) |-> p[k] - 1]

\* the mutant of Preprocess: the observations keep the locationIndex of
\* their own shard
PreprocessKeepLocal(dataset, location_id, location_sorter) == dataset.obs

\* _preprocess(ds, location_vars, location_sorter): the observations of ds
\* with locationIndex pointing into the merged location_id
Preprocess(dataset, location_id, location_sorter) ==
    LET sorted_ids == [k \in 1..Len(location_sorter) |->
                            location_id[location_sorter[k] + 1]]
    IN  [i \in 1..Len(dataset.obs) |->
            [dataset.obs[i] EXCEPT !.locationIndex =
                location_sorter[SearchSorted(sorted_ids,
                                    dataset.location_id[dataset.obs[i].locationIndex + 1]) + 1]]]

\* the merge of _read_cells and _read_locations: the location variables of
\* all datasets made unique and sorted, every dataset's observations remapped
\* and concatenated
MergeData(data) ==
    LET locs_merged == Concat([k \in 1..Len(data) |-> data[k].location_id])
        idxs == UniqueIndex(locs_merged)
        location_id == [k \in 1..Len(idxs) |-> locs_merged[idxs[k] + 1]]
        location_sorter == Argsort(location_id)
    IN  [location_id |-> location_id,
         obs |-> Concat([k \in 1..Len(data) |->
                            Preprocess(data[k], location_id, location_sorter)])]

\* fid.read(location_id=gpi) of the ioclass: the data of one location of the
\* shard, None if the shard does not hold it
ShardReadLocation(shard, gpi) ==
    IF gpi \notin Range(shard.location_id) THEN NoneDs
    ELSE LET k == SearchSorted(shard.location_id, gpi)
             own == [i \in 1..Len(shard.obs) |-> shard.obs[i].locationIndex = k]
         IN  [location_id |-> <<gpi>>,
              obs |-> [i \in 1..Len(Sel(shard.obs, own)) |->
                          [Sel(shard.obs, own)[i] EXCEPT !.locationIndex = 0]]]

\* coll.read(location_id=gpi): _open the cell of gpi, then fid.read
CollReadLocation(coll, gpi) ==
    LET cell == ArrCell(coll.grid_cell_size)[gpi]
    IN  IF cell \in CellsInCollection(coll)
        THEN ShardReadLocation(coll.shards[cell], gpi)
        ELSE NoneDs

\* the list data of _read_locations
ReadLocationsData(colls, location_ids) ==
    NotNone(Concat([i \in 1..Len(colls) |->
                [k \in 1..Len(location_ids) |-> CollReadLocation(colls[i], location_ids[k])]]))

\* the tail of CellFileCollectionStack.read: sort, then drop the duplicates
SortAndDedup(merged) ==
    LET data == SortbySatLocTime(merged.obs)
    IN  [location_id |-> merged.location_id,
         obs |-> DropDupl(data, DuplMask(data, DupeWindow))]

StackInit ==
    /\ \E f \in [1..NumColls -> UNION {CellFiles(size) : size \in CellSizes}] :
            collections = [i \in 1..NumColls |-> MakeCollection(f[i], i)]
    /\ sres = [op |-> "init", arg |-> 0, search_cell_size |-> NoSize,
               status |-> "none", data |-> <<>>, location_id |-> <<>>, obs |-> <<>>]

\* CellFileCollectionStack.read(cell=cell, search_cell_size=...)
StackReadCells(cell, search_cell_size) ==
    /\ sres.op = "init"
    /\ IF /\ search_cell_size # NoSize
          /\ cell \notin {ArrCell(search_cell_size[1])[g] : g \in Gpis}
       THEN \* coll.cell_lut[cell] has no such key
            sres' = [op |-> "read_cells", arg |-> cell,
                     search_cell_size |-> search_cell_size, status |-> "KeyError",
                     data |-> <<>>, location_id |-> <<>>, obs |-> <<>>]
       ELSE LET data == ReadCellsData(collections, cell, search_cell_size)
            IN  IF data = <<>>
                THEN \* _read_cells returns None and read calls None.sortby
                     sres' = [op |-> "read_cells", arg |-> cell,
                              search_cell_size |-> search_cell_size,
                              status |-> "AttributeError",
                              data |-> <<>>, location_id |-> <<>>, obs |-> <<>>]
                ELSE LET res == SortAndDedup(MergeData(data))
                     IN  sres' = [op |-> "read_cells", arg |-> cell,
                                  search_cell_size |-> search_cell_size,
                                  status |-> "ok", data |-> data,
                                  location_id |-> res.location_id, obs |-> res.obs]
    /\ UNCHANGED collections
    /\ UNCHANGED <<dedup_vars, codec_vars, coll_vars, merge_vars, swath_vars,
                   meta_vars, pool_vars, budget_vars>>

\* CellFileCollectionStack.read(location_id=gpi)
StackReadLocations(gpi) ==
    /\ sres.op = "init"
    /\ LET data == ReadLocationsData(collections, <<gpi>>)
       IN  IF data = <<>>
           THEN \* nothing to combine: the merge raises
                sres' = [op |-> "read_locations", arg |-> gpi,
                         search_cell_size |-> NoSize, status |-> "KeyError",
                         data |-> <<>>, location_id |-> <<>>, obs |-> <<>>]
           ELSE LET res == SortAndDedup(MergeData(data))
                IN  sres' = [op |-> "read_locations", arg |-> gpi,
                             search_cell_size |-> NoSize,
                             status |-> "ok", data |-> data,
                             location_id |-> res.location_id, obs |-> res.obs]
    /\ UNCHANGED collections
    /\ UNCHANGED <<dedup_vars, codec_vars, coll_vars, merge_vars, swath_vars,
                   meta_vars, pool_vars, budget_vars>>

\* CellFileCollectionStack.read() with no cell, location_id or bbox
StackReadNoSelector ==
    /\ sres.op = "init"
    /\ sres' = [op |-> "read_no_selector", arg |-> 0, search_cell_size |-> NoSize,
                status |-> "ValueError", data |-> <<>>, location_id |-> <<>>,
                obs |-> <<>>]
    /\ UNCHANGED collections
    /\ UNCHANGED <<dedup_vars, codec_vars, coll_vars, merge_vars, swath_vars,
                   meta_vars, pool_vars, budget_vars>>

\* The grid is one-dimensional: the longitude of a grid point is its number,
\* and a box is an interval <<lonmin, lonmax>> of longitudes.
Boxes == {<<lo, hi>> : lo \in Gpis, hi \in Gpis}

\* read(bbox=...): the bbox branch raises NotImplementedError.
StackReadBbox(bbox) ==
    /\ sres.op = "init"
    /\ sres' = [op |-> "read_bbox", arg |-> 0, search_cell_size |-> NoSize,
                status |-> "NotImplementedError", data |-> <<>>,
                location_id |-> <<>>, obs |-> <<>>, bbox |-> bbox]
    /\ UNCHANGED collections
    /\ UNCHANGED <<dedup_vars, codec_vars, coll_vars, merge_vars, swath_vars,
                   meta_vars, pool_vars, budget_vars>>

\* _trim_to_gpis(coll.read(cell=cell), gpis) with gpis the grid points of a
\* cell of some tiling and cell a native cell that create_cell_lookup
\* relates to it; the members of the stack are drawn alike, so the shards of
\* the first stand for those of every member
trim_to_gpis(i, cell, target, size) ==
    /\ sres.op = "init"
    /\ LET dataset == CollReadCell(collections[i], cell)
           gpis == GridPointsForCell(target, size)
           trimmed == TrimToGpis(dataset, gpis)
       IN  sres' = [op |-> "trim_to_gpis", arg |-> cell, search_cell_size |-> <<size>>,
                    status |-> IF trimmed = NoneDs THEN "None" ELSE "ok",
                    data |-> <<dataset>>,
                    location_id |-> IF trimmed = NoneDs THEN <<>> ELSE trimmed.location_id,
                    obs |-> IF trimmed = NoneDs THEN <<>> ELSE trimmed.obs,
                    gpis |-> gpis]
    /\ UNCHANGED collections
    /\ UNCHANGED <<dedup_vars, codec_vars, coll_vars, merge_vars, swath_vars,
                   meta_vars, pool_vars, budget_vars>>

\* A read leaves the collections as they are and its result does not depend
\* on the reads before it (cell_lut is recomputed whenever the size changes),
\* so every read is taken on the stack as constructed: the states reached are
\* those of arbitrary sequences of reads.
StackNext ==
    \/ \E cell \in Gpis, size \in {NoSize} \cup {<<sz>> : sz \in CellSizes} :
            StackReadCells(cell, size)
    \/ \E gpi \in Gpis : StackReadLocations(gpi)
    \/ StackReadNoSelector
    \/ \E bbox \in Boxes : StackReadBbox(bbox)
    \/ \E size \in CellSizes :
            \E target \in {ArrCell(size)[g] : g \in Gpis} :
                \E cell \in CellLut(collections[1], size)[target] :
                    trim_to_gpis(1, cell, target, size)

StackSpecInit == StackInit /\ DedupIdle /\ CodecIdle /\ CollIdle /\ MergeIdle /\ SwathIdle
    /\ MetaIdle /\ PoolIdle /\ BudgetIdle

StackSpec == StackSpecInit /\ [][StackNext]_vars

\* ----------------------------------------------------- stack read claims
StackReadOk(o) == sres.op = o /\ sres.status = "ok"

IsStrictlyAscending(v) == \A k \in 1..(Len(v) - 1) : v[k] < v[k+1]

\* the location ids of the datasets that went into the merge
ContributingIds == UNION {Range(sres.data[k].location_id) : k \in 1..Len(sres.data)}

\* the location ids held by the shard files of the native cells that the
\* lookup gives for the target cell of the last read
ShardIdsForTarget ==
    UNION {UNION {Range(collections[i].shards[c].location_id) :
                    c \in CellsInCollection(collections[i])
                            \cap CellLut(collections[i], sres.search_cell_size[1])[sres.arg]} :
            i \in 1..Len(collections)}

\* the grid points of the target cell of the last read, under the target tiling
TargetPoints == Range(GridPointsForCell(sres.arg, sres.search_cell_size[1]))

\* C9: a stack read of target cell C with a search cell size returns exactly
\* the locations of C under the target tiling: every location_id of the
\* result is a grid point of C, every grid point of C that a contributing
\* shard holds is in the result, and no location_id occurs twice.
C9_ExactlyTargetCell ==
    (StackReadOk("read_cells") /\ sres.search_cell_size # NoSize) =>
        /\ Range(sres.location_id) = TargetPoints \cap ShardIdsForTarget
        /\ Cardinality(Range(sres.location_id)) = Len(sres.location_id)

\* C10: in every stack merge result, from _read_cells and from
\* _read_locations, location_id is strictly ascending (so unique) and its
\* values are exactly the union of the location ids of the merged datasets.
C10_MergedLocationsSortedUnion ==
    (StackReadOk("read_cells") \/ StackReadOk("read_locations")) =>
        /\ IsStrictlyAscending(sres.location_id)
        /\ Range(sres.location_id) = ContributingIds

\* a merge of two datasets that overlap and arrive out of order: location 1,
\* then locations 0 and 1
C10_Witness ==
    /\ StackReadOk("read_cells")
    /\ Len(sres.data) = 2
    /\ sres.data[1].location_id = <<1>>
    /\ sres.data[2].location_id = <<0, 1>>
    /\ sres.location_id = <<0, 1>>

\* the observations of dataset k of the last merge after _preprocess
Remapped(k) ==
    LET merged == MergeData(sres.data)
    IN  Preprocess(sres.data[k], merged.location_id, Argsort(merged.location_id))

C27_TrimKeepsAssociation ==
    StackReadOk("trim_to_gpis") =>
        \A i \in 1..Len(sres.obs) :
            /\ sres.obs[i].locationIndex \in 0..(Len(sres.location_id) - 1)
            /\ sres.location_id[sres.obs[i].locationIndex + 1]
                    = sres.data[1].location_id[sres.obs[i].locationIndex + 1]

\* ------------------------------------- construction and merge_and_write
\* cells=None of merge_and_write; a given list of cells cs is <<cs>>
NoCells == <<>>

\* the cell lists given to merge_and_write
ExplicitCells == (SUBSET {ArrCell(2)[g] : g \in Gpis}) \ {{}}

\* the collections a stack is built from: of either cell size, with any set
\* of cell files, every file holding all grid points of its cell
FullCellFiles ==
    {config \in UNION {CellFiles(size) : size \in CellSizes} :
        \A c \in DOMAIN config.files :
            config.files[c] = Range(GridPointsForCell(c, config.grid_cell_size))}

\* the lists of n collections, member i being the i-th of the stack after
\* the first `before` ones
CollectionLists(before, n) ==
    {[k \in 1..n |-> MakeCollection(f[k], before + k)] : f \in [1..n -> FullCellFiles]}

\* the loop of __init__ and of add_collection over the collections `colls`:
\* grids and _different_cell_sizes after it
ScanCellSizes(colls, grids, different) ==
    LET F[k \in 0..Len(colls)] ==
            IF k = 0 THEN [grids |-> grids, different |-> different]
            ELSE [grids |-> IF colls[k].grid_cell_size \in Range(F[k-1].grids)
                            THEN F[k-1].grids
                            ELSE Append(F[k-1].grids, colls[k].grid_cell_size),
                  different |-> F[k-1].different
                                    \/ colls[k].grid_cell_size # colls[1].grid_cell_size]
    IN  F[Len(colls)]

NoMerge ==
    [op |-> "init", cells |-> NoCells, out_cell_size |-> NoSize, status |-> "none",
     mkdir |-> FALSE, tasks |-> <<>>, files |-> {}]

\* CellFileCollectionStack.__init__(collections, ioclass)
MergeInit ==
    /\ \E n \in 1..NumColls : \E colls \in CollectionLists(0, n) :
            LET scan == ScanCellSizes(colls, <<>>, FALSE)
            IN  mstack = [collections |-> colls, grids |-> scan.grids,
                          different_cell_sizes |-> scan.different]
    /\ mw = NoMerge

\* add_collection(collections) with a list of CellFileCollection objects
add_collection(n) ==
    /\ mw.op = "init"
    /\ Len(mstack.collections) + n <= NumColls
    /\ \E colls \in CollectionLists(Len(mstack.collections), n) :
            LET scan == ScanCellSizes(colls, mstack.grids, mstack.different_cell_sizes)
            IN  mstack' = [collections |-> mstack.collections \o colls,
                           grids |-> scan.grids,
                           different_cell_sizes |-> scan.different]
    /\ UNCHANGED mw
    /\ UNCHANGED <<dedup_vars, codec_vars, coll_vars, stack_vars, swath_vars,
                   meta_vars, pool_vars, budget_vars>>

\* _subcollection_cells(cells, out_cell_size)
SubcollectionCells(colls, cells, out_cell_size) ==
    IF out_cell_size = NoSize
    THEN {c \in UNION {CellsInCollection(colls[i]) : i \in 1..Len(colls)} :
            cells = NoCells \/ c \in cells[1]}
    ELSE UNION {{k \in DOMAIN CellLut(colls[i], out_cell_size[1]) :
                    CellLut(colls[i], out_cell_size[1])[k]
                        \cap CellsInCollection(colls[i]) # {}} :
                i \in 1..Len(colls)}

\* _write_single_cell(out_dir, ioclass, cell, out_cell_size): the name of the
\* file written, none if the read of the cell raises
WriteSingleCell(colls, cell, out_cell_size) ==
    IF ReadCellsData(colls, cell, out_cell_size) = <<>> THEN {} ELSE {cell}

\* merge_and_write(out_dir, cells, out_cell_size) into a new out_dir
merge_and_write(cells, out_cell_size) ==
    /\ mw.op = "init"
    /\ IF out_cell_size = NoSize /\ mstack.different_cell_sizes
       THEN mw' = [op |-> "merge_and_write", cells |-> cells,
                   out_cell_size |-> out_cell_size, status |-> "ValueError",
                   mkdir |-> FALSE, tasks |-> <<>>, files |-> {}]
       ELSE LET target == SubcollectionCells(mstack.collections, cells, out_cell_size)
                tasks == SortedSeqOfSet(target)
                files == UNION {WriteSingleCell(mstack.collections, c, out_cell_size) :
                                    c \in target}
            IN  mw' = [op |-> "merge_and_write", cells |-> cells,
                       out_cell_size |-> out_cell_size,
                       status |-> IF files = target THEN "ok" ELSE "AttributeError",
                       mkdir |-> TRUE, tasks |-> tasks, files |-> files]
    /\ UNCHANGED mstack
    /\ UNCHANGED <<dedup_vars, codec_vars, coll_vars, stack_vars, swath_vars,
                   meta_vars, pool_vars, budget_vars>>

\* The collections of a stack only grow and merge_and_write reads them
\* without changing them, so a behaviour builds the stack and then merges once
\* into a new output directory.
MergeNext ==
    \/ \E n \in 1..NumColls : add_collection(n)
    \/ \E cells \in {NoCells} \cup {<<cs>> : cs \in ExplicitCells},
          size \in {NoSize} \cup {<<sz>> : sz \in CellSizes} :
            merge_and_write(cells, size)

MergeSpecInit == MergeInit /\ DedupIdle /\ CodecIdle /\ CollIdle /\ StackIdle /\ SwathIdle
    /\ MetaIdle /\ PoolIdle /\ BudgetIdle

MergeSpec == MergeSpecInit /\ [][MergeNext]_vars

\* ----------------------------------------------------- merge claims
CellSizesOfStack == {mstack.collections[i].grid_cell_size : i \in 1..Len(mstack.collections)}

MergedWithoutSize == mw.op = "merge_and_write" /\ mw.out_cell_size = NoSize

NoMergeIO == ~mw.mkdir /\ mw.tasks = <<>> /\ mw.files = {}

\* C11: however the stack was built (constructor, then add_collection calls),
\* merge_and_write without out_cell_size raises whenever two member
\* collections differ in cell size, and then no output directory was created,
\* no task was dispatched and no file was written.
C11_DifferentSizesRaise ==
    (MergedWithoutSize /\ Cardinality(CellSizesOfStack) > 1) =>
        (mw.status = "ValueError" /\ NoMergeIO)

MergeRan == mw.op = "merge_and_write" /\ mw.status # "ValueError"

\* C15: merge_and_write dispatches one task per cell of the target set, no
\* cell twice, and writes one file per target cell; with an explicit list of
\* cells the target set holds only cells of that list, with and without
\* out_cell_size.
C15_OneTaskPerTargetCell ==
    MergeRan =>
        /\ \A j, k \in 1..Len(mw.tasks) : mw.tasks[j] = mw.tasks[k] => j = k
        /\ mw.files = Range(mw.tasks)
        /\ mw.cells # NoCells => Range(mw.tasks) \subseteq mw.cells[1]

\* ------------------------------------------- stack read: missing shards
\* the member collections that have a shard file for the cell of the last read
CollectionsWithShard ==
    {i \in 1..Len(collections) : sres.arg \in CellsInCollection(collections[i])}

\* C12: in a stack read of a cell, a collection without a shard for the cell
\* contributes nothing and raises no error: the datasets merged are those of
\* the collections that have the shard, and the read does not raise even when
\* no collection has it.
C12_MissingShardIsNoError ==
    (sres.op = "read_cells" /\ sres.search_cell_size = NoSize) =>
        /\ sres.status = "ok"
        /\ Len(sres.data) = Cardinality(CollectionsWithShard)

\* the brute-force filter: the grid points whose longitude lies in the box
PointsInBox(bbox) == {g \in Gpis : bbox[1] <= g /\ g <= bbox[2]}

\* the location ids held by some shard file of some collection of the stack
HeldIds ==
    UNION {UNION {Range(collections[i].shards[c].location_id) :
                    c \in CellsInCollection(collections[i])} :
            i \in 1..Len(collections)}

\* C20: a bbox read succeeds and returns the data of exactly the location
\* ids whose coordinates fall within the box, as a brute-force point-in-box
\* filter over the full grid gives them.
C20_BboxReadsPointsInBox ==
    sres.op = "read_bbox" =>
        /\ sres.status = "ok"
        /\ Range(sres.location_id) = PointsInBox(sres.bbox) \cap HeldIds

\* ------------------------------------------------ SwathFileCollection.stack
\* the largest number of swath files given to one call
MaxOverpasses == 3

\* the memory budget of the call, in megabytes
buffer_memory_mb == 6

\* ds.nbytes / 1e6 of a swath file
OverpassMb == {2, 4, 8}

\* the cells of the output grid that the observations of a swath file fall in
SwathCells == {0, 1}

\* a swath file: its size and the cell its observations belong to
Overpasses == [mb : OverpassMb, cell : SwathCells]

\* the mode argument
Modes == {"w", "a", "x"}

SwathInit ==
    /\ \E fnames \in SeqsUpTo(Overpasses, MaxOverpasses) :
            sw = [pc |-> "start", mode |-> "none", fnames |-> fnames, iter |-> 0,
                  buffer |-> <<>>, buffer_size |-> 0, flushes |-> <<>>,
                  err |-> "none", before |-> {}]
    /\ out_dir \in SUBSET SwathCells
    /\ events = <<>>

\* the mutant of UnlinkAll: nothing is deleted
UnlinkNone(files) == <<>>

\* for f in out_dir.glob("*.nc"): f.unlink()
UnlinkAll(files) ==
    LET fs == SortedSeqOfSet(files)
    IN  [k \in 1..Len(fs) |-> [e |-> "unlink", cell |-> fs[k]]]

\* process(combine_nested(buffer)) and _parallel_write_cells: one append-write
\* per cell that the buffered observations fall in
WriteCells(buffer) ==
    LET cells == SortedSeqOfSet({sw.fnames[buffer[k]].cell : k \in 1..Len(buffer)})
    IN  [k \in 1..Len(cells) |-> [e |-> "write", cell |-> cells[k]]]

\* the mutant of ValidMode: every mode is taken
ValidModeAny(mode) == TRUE

\* mode == "w" or mode == "a"
ValidMode(mode) == mode \in {"w", "a"}

\* stack, lines 1193-1212: the mode, the confirmation, the deletion
StackBegin(mode, confirmed) ==
    /\ sw.pc = "start"
    /\ IF ~ValidMode(mode)
       THEN /\ sw' = [sw EXCEPT !.pc = "raised", !.mode = mode, !.err = "ValueError",
                                !.before = out_dir]
            /\ UNCHANGED <<out_dir, events>>
       ELSE IF ~confirmed
       THEN \* input() is interrupted
            /\ sw' = [sw EXCEPT !.pc = "raised", !.mode = mode,
                                !.err = "KeyboardInterrupt", !.before = out_dir]
            /\ events' = Append(events, [e |-> "input"])
            /\ UNCHANGED out_dir
       ELSE /\ sw' = [sw EXCEPT !.pc = "loop", !.mode = mode, !.iter = 1,
                                !.before = out_dir]
            /\ events' = Append(events, [e |-> "input"])
                            \o (IF mode = "w" THEN UnlinkAll(out_dir) ELSE <<>>)
            /\ out_dir' = IF mode = "w" THEN {} ELSE out_dir
    /\ UNCHANGED <<dedup_vars, codec_vars, coll_vars, stack_vars, merge_vars,
                   meta_vars, pool_vars, budget_vars>>

\* the mutant of BufferFull: full as soon as the budget is reached
BufferFullAtBudget(buffer_size) == buffer_size >= buffer_memory_mb

\* if buffer_size > self.max_buffer_memory_mb
BufferFull(buffer_size) == buffer_size > buffer_memory_mb

\* one iteration of the loop over fnames, lines 1215-1236
StackIter ==
    /\ sw.pc = "loop"
    /\ sw.iter <= Len(sw.fnames)
    /\ LET mb == sw.fnames[sw.iter].mb
           buffer_size == sw.buffer_size + mb
           read == [e |-> "read", iter |-> sw.iter]
       IN  IF BufferFull(buffer_size)
           THEN IF sw.buffer = <<>>
                THEN \* process() of the empty dataset has no "obs"
                     /\ sw' = [sw EXCEPT !.pc = "raised", !.err = "KeyError",
                                         !.buffer_size = buffer_size]
                     /\ events' = events \o <<read, [e |-> "mkdir"]>>
                     /\ UNCHANGED out_dir
                ELSE /\ sw' = [sw EXCEPT !.iter = @ + 1,
                                         !.flushes = Append(@, sw.buffer),
                                         !.buffer = <<sw.iter>>,
                                         !.buffer_size = mb]
                     /\ events' = events \o <<read, [e |-> "mkdir"]>>
                                         \o WriteCells(sw.buffer)
                     /\ out_dir' = out_dir \cup
                            {sw.fnames[sw.buffer[k]].cell : k \in 1..Len(sw.buffer)}
           ELSE /\ sw' = [sw EXCEPT !.iter = @ + 1,
                                    !.buffer = Append(@, sw.iter),
                                    !.buffer_size = buffer_size]
                /\ events' = Append(events, read)
                /\ UNCHANGED out_dir
    /\ UNCHANGED <<dedup_vars, codec_vars, coll_vars, stack_vars, merge_vars,
                   meta_vars, pool_vars, budget_vars>>

\* after the loop, lines 1238-1252: the remaining buffer
StackEnd ==
    /\ sw.pc = "loop"
    /\ sw.iter > Len(sw.fnames)
    /\ IF Len(sw.buffer) > 0
       THEN /\ sw' = [sw EXCEPT !.pc = "done", !.flushes = Append(@, sw.buffer)]
            /\ events' = Append(events, [e |-> "mkdir"]) \o WriteCells(sw.buffer)
            /\ out_dir' = out_dir \cup
                    {sw.fnames[sw.buffer[k]].cell : k \in 1..Len(sw.buffer)}
       ELSE /\ sw' = [sw EXCEPT !.pc = "done"]
            /\ UNCHANGED <<out_dir, events>>
    /\ UNCHANGED <<dedup_vars, codec_vars, coll_vars, stack_vars, merge_vars,
                   meta_vars, pool_vars, budget_vars>>

SwathNext ==
    \/ \E mode \in Modes, confirmed \in BOOLEAN : StackBegin(mode, confirmed)
    \/ StackIter
    \/ StackEnd

SwathSpecInit ==
    SwathInit /\ DedupIdle /\ CodecIdle /\ CollIdle /\ StackIdle /\ MergeIdle /\ MetaIdle /\ PoolIdle /\ BudgetIdle

SwathSpec == SwathSpecInit /\ [][SwathNext]_vars

\* ------------------------------------------------------ swath stack claims
\* the size of the overpasses a..b of the call
SumMb(a, b) == Sum([k \in 1..(b - a + 1) |-> sw.fnames[a + k - 1].mb])

MbOf(fnames) == [k \in 1..Len(fnames) |-> fnames[k].mb]

\* the overpasses a flush cycle or the buffer holds are consecutive and, from
\* the second on, were added without exceeding the budget
FitsBudget(F) == \A k \in 2..Len(F) : F[k] = F[1] + k - 1 /\ SumMb(F[1], F[k]) <= buffer_memory_mb

EventsOf(kind) == {k \in 1..Len(events) : events[k].e = kind}

Confirmed == sw.pc \in {"loop", "done"} \/ (sw.pc = "raised" /\ sw.err = "KeyError")

\* C14: in mode 'w' the shard files that were in the output directory are
\* deleted only after the confirmation, all of them, and before any shard is
\* written; without the confirmation nothing is deleted and nothing written;
\* in mode 'a' no shard file is ever deleted.
C14_DeleteOnlyAfterConfirmation ==
    sw # <<>> =>
        /\ \A u \in EventsOf("unlink") :
                /\ sw.mode = "w" /\ Confirmed
                /\ \E c \in EventsOf("input") : c < u
                /\ \A w \in EventsOf("write") : u < w
        /\ (sw.mode = "w" /\ Confirmed) =>
                {events[u].cell : u \in EventsOf("unlink")} = sw.before
        /\ (sw.pc = "raised" /\ sw.err = "KeyboardInterrupt") =>
                /\ out_dir = sw.before
                /\ EventsOf("unlink") = {} /\ EventsOf("write") = {}
        /\ sw.mode = "a" =>
                /\ EventsOf("unlink") = {}
                /\ sw.before \subseteq out_dir

\* an overwrite of a directory that held two shard files, confirmed, that
\* went on to write a shard
C14_Witness ==
    /\ sw # <<>>
    /\ sw.mode = "w" /\ sw.pc = "done"
    /\ sw.before = {0, 1}
    /\ Cardinality(EventsOf("unlink")) = 2
    /\ EventsOf("write") # {}

\* the input files read so far, in the order of the reads
FilesRead == [k \in 1..Cardinality(EventsOf("read")) |->
                events[CHOOSE e \in EventsOf("read") :
                            Cardinality({d \in EventsOf("read") : d <= e}) = k].iter]

CallEnded == sw.pc \in {"done", "raised"}

\* C22: the input files are read strictly in the order given; each flush
\* covers a run of consecutive input files and, while the loop runs, the
\* buffer holds only files that no flush has covered; when the call has ended every file that was
\* read is in exactly one flush.
C22_EveryReadFileFlushedOnce ==
    sw # <<>> =>
        /\ FilesRead = [k \in 1..Len(FilesRead) |-> k]
        /\ \A j \in 1..Len(sw.flushes) :
                \A k \in 2..Len(sw.flushes[j]) :
                    sw.flushes[j][k] = sw.flushes[j][k-1] + 1
        /\ sw.pc = "loop" => Range(sw.buffer) \cap Range(Concat(sw.flushes)) = {}
        /\ CallEnded => Concat(sw.flushes) = FilesRead

\* C28: stack never flushes an empty buffer: every flush that is started
\* (out_dir.mkdir followed by process) has at least one input file to work
\* on, also when the first input file alone exceeds the budget; with an empty
\* input list no flush is started.
C28_NoEmptyFlush ==
    sw # <<>> =>
        /\ Cardinality(EventsOf("mkdir")) = Len(sw.flushes)
        /\ \A j \in 1..Len(sw.flushes) : sw.flushes[j] # <<>>
        /\ ~(sw.pc = "raised" /\ sw.err = "KeyError")
        /\ sw.fnames = <<>> => EventsOf("mkdir") = {}

\* ------------------------- CellFileCollection: lookup, paths, selectors
\* the collection as CellLut reads it
ThisCollection == [grid_cell_size |-> grid_cell_size]

\* create_cell_lookup(out_cell_size)
create_cell_lookup(size) ==
    /\ IF <<size>> # lookup.out_cell_size
       THEN lookup' = [out_cell_size |-> <<size>>,
                       cell_lut |-> CellLut(ThisCollection, size)]
       ELSE UNCHANGED lookup
    /\ last' = [op |-> "create_cell_lookup", cell |-> <<>>,
                result |-> IF <<size>> # lookup.out_cell_size THEN "rebuilt" ELSE "kept",
                events |-> <<>>, fid_before |-> fid,
                previous_before |-> previous_cell, after_failure |-> failure,
                size |-> size, out_before |-> lookup.out_cell_size]
    /\ UNCHANGED <<fid, previous_cell, n_open, failure, grid_cell_size>>
    /\ UNCHANGED <<dedup_vars, codec_vars, stack_vars, merge_vars, swath_vars,
                   meta_vars, pool_vars, budget_vars>>

\* self.path / self.fn_format.format(cell)
PathOf(cell) == <<"path", cell>>

\* the arguments of get_cell_path: a cell, a location id, or neither
PathArgs ==
    {[cell |-> <<c>>, location_id |-> <<>>] : c \in (min_cell - 1)..(max_cell + 1)}
        \cup {[cell |-> <<>>, location_id |-> <<g>>] : g \in Gpis}
        \cup {[cell |-> <<>>, location_id |-> <<>>]}

\* get_cell_path(cell, location_id): the path, or the error raised
GetCellPathResult(args) ==
    IF args.location_id = <<>> /\ args.cell = <<>>
    THEN <<"ValueError", "Either location_id or cell must be given">>
    ELSE LET cell == IF args.location_id # <<>>
                     THEN ArrCell(grid_cell_size)[args.location_id[1]]
                     ELSE args.cell[1]
         IN  IF ~CellInGrid(cell) THEN <<"ValueError", "Cell is not in grid">>
             ELSE PathOf(cell)

\* get_cell_path(cell, location_id), the file being there or not
get_cell_path(args, exists) ==
    /\ last' = [op |-> "get_cell_path", cell |-> <<>>,
                result |-> GetCellPathResult(args),
                events |-> <<>>, fid_before |-> fid,
                previous_before |-> previous_cell, after_failure |-> failure,
                args |-> args, exists |-> exists]
    /\ UNCHANGED <<fid, previous_cell, n_open, failure, lookup_vars>>
    /\ UNCHANGED <<dedup_vars, codec_vars, stack_vars, merge_vars, swath_vars,
                   meta_vars, pool_vars, budget_vars>>

\* CellFileCollection.read() with no cell, location_id, coords or bbox
ReadNoSelector ==
    /\ last' = [op |-> "read_no_selector", cell |-> <<>>, result |-> "ValueError",
                events |-> <<>>, fid_before |-> fid,
                previous_before |-> previous_cell, after_failure |-> failure]
    /\ UNCHANGED <<fid, previous_cell, n_open, failure, lookup_vars>>
    /\ UNCHANGED <<dedup_vars, codec_vars, stack_vars, merge_vars, swath_vars,
                   meta_vars, pool_vars, budget_vars>>

\* read(bbox=...): _read_bbox raises NotImplementedError; nothing is opened.
ReadBbox(bbox) ==
    /\ last' = [op |-> "read_bbox", cell |-> <<>>, result |-> "NotImplementedError",
                events |-> <<>>, fid_before |-> fid,
                previous_before |-> previous_cell, after_failure |-> failure,
                bbox |-> bbox]
    /\ UNCHANGED <<fid, previous_cell, n_open, failure, lookup_vars>>
    /\ UNCHANGED <<dedup_vars, codec_vars, stack_vars, merge_vars, swath_vars,
                   meta_vars, pool_vars, budget_vars>>

Next ==
    \/ \E cell \in CellArgs : ReadCellOutOfGrid(cell)
    \/ \E cell \in CellArgs, io_ok \in BOOLEAN : ReadCell(cell, io_ok)
    \/ \E location_id \in LocationArgs, io_ok \in BOOLEAN :
            ReadLocationId(location_id, io_ok)
    \/ Close
    \/ \E size \in CellSizes : create_cell_lookup(size)
    \/ \E args \in PathArgs, exists \in BOOLEAN : get_cell_path(args, exists)
    \/ ReadNoSelector
    \/ \E bbox \in Boxes : ReadBbox(bbox)

Init == CollInit /\ DedupIdle /\ CodecIdle /\ StackIdle /\ MergeIdle /\ SwathIdle /\ MetaIdle /\ PoolIdle /\ BudgetIdle

Spec == Init /\ [][Next]_vars

\* -------------------------- claims on the lookup table and on the paths
\* the native cells that hold at least one grid point of target cell t
NativeCellsMeeting(t, size) ==
    {n \in {ArrCell(grid_cell_size)[g] : g \in Gpis} :
        \E g \in Gpis : ArrCell(grid_cell_size)[g] = n /\ ArrCell(size)[g] = t}

\* C16: after create_cell_lookup(s), cell_lut maps every target cell of the
\* tiling s to exactly the native cells that hold a grid point of it; the
\* table is rebuilt only when s differs from the size asked for before, and
\* the cached table is always the one of the size asked for last.
C16_LookupTableCached ==
    /\ lookup.out_cell_size = NoSize => lookup.cell_lut = NoLut
    /\ lookup.out_cell_size # NoSize =>
        /\ DOMAIN lookup.cell_lut = {ArrCell(lookup.out_cell_size[1])[g] : g \in Gpis}
        /\ \A t \in DOMAIN lookup.cell_lut :
                lookup.cell_lut[t] = NativeCellsMeeting(t, lookup.out_cell_size[1])
    /\ last.op = "create_cell_lookup" =>
        /\ lookup.out_cell_size = <<last.size>>
        /\ (last.result = "rebuilt") <=> (last.out_before # <<last.size>>)

\* the table of the finer tiling on a collection of the coarser one, asked
\* for a second time
C16_Witness ==
    /\ last.op = "create_cell_lookup"
    /\ last.result = "kept"
    /\ grid_cell_size = 2 /\ last.size = 1
    /\ lookup.cell_lut[1] = {0} /\ lookup.cell_lut[2] = {1}

\* the cell that get_cell_path resolves its arguments to
ResolvedCell(args) ==
    IF args.location_id # <<>> THEN ArrCell(grid_cell_size)[args.location_id[1]]
    ELSE args.cell[1]

\* C17: get_cell_path changes no state; it raises the range error iff the
\* resolved cell is below min_cell or above max_cell, min_cell and max_cell
\* being accepted, and otherwise returns the path of the resolved cell,
\* whether the file exists or not.
C17_GetCellPathPure ==
    [][(last'.op = "get_cell_path"
            /\ (last'.args.cell # <<>> \/ last'.args.location_id # <<>>)) =>
        LET cell == ResolvedCell(last'.args)
        IN  /\ UNCHANGED <<fid, previous_cell, n_open, failure, lookup_vars>>
            /\ (last'.result = <<"ValueError", "Cell is not in grid">>)
                    <=> (cell < min_cell \/ cell > max_cell)
            /\ (cell >= min_cell /\ cell <= max_cell) => last'.result = PathOf(cell)
      ]_vars

\* the path of max_cell, asked for while its file does not exist
C17_Witness ==
    /\ last.op = "get_cell_path"
    /\ last.args.cell = <<max_cell>>
    /\ ~last.exists
    /\ last.result = PathOf(max_cell)

\* ------------------------------------------- claims on the codec errors
\* the variable that the conversion `step` requires
RequiredVariable(step) ==
    IF step = "contiguous_to_indexed" THEN "row_size" ELSE "locationIndex"

\* C18: contiguous_to_indexed raises iff row_size is absent and
\* indexed_to_contiguous raises iff locationIndex is absent; a conversion that
\* raises returns nothing and leaves the dataset it was given as it was.
C18_MissingVariableRaises ==
    [][LET required == RequiredVariable(steps'[Len(steps')])
       IN  /\ (cerr' = "ValueError") <=> (required \notin cds.vars)
           /\ (cerr' = "ValueError") => (cds' = cds)
      ]_vars

\* a dataset converted to contiguous and handed to indexed_to_contiguous once
\* more: locationIndex is gone and the second call raises
C18_Witness ==
    /\ steps = <<"indexed_to_contiguous", "indexed_to_contiguous">>
    /\ cerr = "ValueError"
    /\ cds.vars = {"row_size"}

\* -------------------------------------------------- configuration errors
\* A program works on one swath collection, on one cell file collection or on
\* one stack.
ConfigInit == SwathSpecInit \/ Init \/ StackSpecInit

ConfigNext ==
    \/ sw # <<>> /\ SwathNext
    \/ last # <<>> /\ Next
    \/ sres # <<>> /\ StackNext

ConfigSpec == ConfigInit /\ [][ConfigNext]_vars

\* C19: a configuration error is raised before anything is done: stack with a
\* mode other than 'w' and 'a' raises without a prompt, a deletion, a read of
\* an input or a write of a shard; CellFileCollection.read and
\* CellFileCollectionStack.read without a selector raise without opening or
\* closing a handle or reading a shard.
C19_ConfigErrorsBeforeIO ==
    /\ (sw # <<>> /\ sw.mode \notin {"none", "w", "a"}) =>
        /\ sw.pc = "raised" /\ sw.err = "ValueError"
        /\ events = <<>>
        /\ out_dir = sw.before
        /\ sw.iter = 0 /\ sw.buffer = <<>> /\ sw.flushes = <<>>
    /\ (last # <<>> /\ last.op = "read_no_selector") =>
        /\ last.result = "ValueError"
        /\ last.events = <<>>
        /\ fid = last.fid_before
        /\ previous_cell = last.previous_before
    /\ (sres # <<>> /\ sres.op = "read_no_selector") =>
        /\ sres.status = "ValueError"
        /\ sres.data = <<>>

\* stack called with an invalid mode on a directory that holds two shard
\* files and with input files to read
C19_Witness ==
    /\ sw # <<>>
    /\ sw.mode = "x"
    /\ sw.pc = "raised"
    /\ out_dir = {0, 1}
    /\ Len(sw.fnames) > 0

\* ---------------------------------------- create_encoding, set_attributes
\* A dict is a function from its keys to its values; the empty dict is <<>>.
\* {**defaults, **overrides}: the value of a key that both have is the one
\* of overrides, as a whole
DictMergeDeep(defaults, overrides) ==
    [k \in DOMAIN defaults \cup DOMAIN overrides |->
        IF k \in DOMAIN defaults /\ k \in DOMAIN overrides
        THEN overrides[k] @@ defaults[k]
        ELSE IF k \in DOMAIN overrides THEN overrides[k] ELSE defaults[k]]

DictMerge(defaults, overrides) == overrides @@ defaults

\* the variables of a dataset that the defaults name: the index or count
\* variable, lon (lat and alt are treated like it), time and location_id
\* (location_description is treated like it), and a data variable sm
IdVars == {"row_size", "locationIndex", "location_id"}

DataVarDtypes ==
    [row_size |-> {"int64", "int32"}, locationIndex |-> {"int64"},
     time |-> {"datetime64"}, sm |-> {"float32"}]

\* np.issubdtype(dtype, np.number)
IsNumber(dtype) == dtype \in {"int64", "int32", "float32", "float64"}

\* the attributes a variable of the dataset carries before the call
ExistingAttrs == {<<>>, [comment |-> "calibrated"]}

\* the datasets: dtypes is dataset.dtypes (the data variables), coords the
\* coordinates, attrs the attributes of every variable
MetaDatasets ==
    UNION {UNION {{[dtypes |-> d, coords |-> c,
                    attrs |-> [v \in dv \cup c |-> IF v = "lon" THEN a ELSE <<>>]] :
                        d \in {f \in [dv -> {"int64", "int32", "datetime64", "float32"}] :
                                    \A v \in dv : f[v] \in DataVarDtypes[v]},
                        a \in ExistingAttrs} :
                    c \in {{"lon", "location_id"}, {"lon", "location_id", "time"} \ dv,
                           {"location_id"}}} :
            dv \in {{"row_size", "time"}, {"locationIndex", "time", "sm"},
                    {"row_size", "locationIndex"}, {"sm"}}}

\* the custom encodings: a dict of dicts for some of the variables
CustomEncodingEntries ==
    {[units |-> "seconds since 1970-01-01"], [dtype |-> "float64", complevel |-> 9]}

CustomEncodings ==
    UNION {[V -> CustomEncodingEntries] : V \in SUBSET {"lon", "time"}}

\* the custom attributes
CustomAttributeEntries == {[units |-> "degrees"], [long_name |-> "longitude"]}

CustomAttributes ==
    UNION {[V -> CustomAttributeEntries] : V \in SUBSET {"lon", "sm"}}

\* the default encodings written out in create_encoding, after the loop
\* that adds _FillValue, zlib and complevel to each
WrittenEncoding(first_var) ==
    LET common == ("_FillValue" :> None) @@ [zlib |-> TRUE, complevel |-> 4]
    IN  (first_var :> (common @@ [dtype |-> "int64"]))
        @@ [lon |-> common @@ [dtype |-> "float32"],
            location_id |-> common @@ [dtype |-> "int64"],
            time |-> common @@ [dtype |-> "float64",
                                units |-> "days since 1900-01-01 00:00:00"]]

\* default_encoding.update(...): one entry per data variable of the dataset
DtypeEncoding(dataset) ==
    [v \in DOMAIN dataset.dtypes |->
        ("_FillValue" :> None)
        @@ [dtype |-> dataset.dtypes[v], zlib |-> IsNumber(dataset.dtypes[v]),
            complevel |-> 4]]

default_encoding(dataset, first_var) ==
    DictMerge(WrittenEncoding(first_var), DtypeEncoding(dataset))

\* first_var of create_encoding: row_size before locationIndex
EncodingFirstVar(dataset) ==
    IF "row_size" \in DOMAIN dataset.dtypes THEN "row_size"
    ELSE IF "locationIndex" \in DOMAIN dataset.dtypes THEN "locationIndex"
    ELSE None

\* dataset_ra_type: locationIndex before row_size, among all variables
dataset_ra_type(dataset) ==
    IF "locationIndex" \in DOMAIN dataset.attrs THEN "indexed"
    ELSE IF "row_size" \in DOMAIN dataset.attrs THEN "contiguous"
    ELSE None

default_attrs(first_var) ==
    (first_var :>
        (IF first_var = "row_size"
         THEN [long_name |-> "number of observations at this location",
               sample_dimension |-> "obs"]
         ELSE [long_name |-> "which location this observation is for",
               sample_dimension |-> "locations"]))
    @@ [lon |-> [standard_name |-> "longitude", long_name |-> "location longitude",
                 units |-> "degrees_east", valid_range |-> <<-180, 180>>],
        time |-> [standard_name |-> "time", long_name |-> "time of measurement"],
        location_id |-> <<>>]

\* the order in which set_attributes walks the merged dict: the defaults in
\* the order written, then the keys that only the caller gave
AttributeOrder(first_var, attributes) ==
    <<first_var, "lon", "time", "location_id">>
    \o (IF "sm" \in DOMAIN attributes THEN <<"sm">> ELSE <<>>)

\* the loop of set_attributes over the first n variables: assign_attrs adds
\* the given attributes to those the variable carries; the id variables get
\* the encoding coordinates = None
RECURSIVE AssignAttrs(_, _, _, _)
AssignAttrs(dataset, attributes, order, n) ==
    IF n = 0 THEN [status |-> "ok", attrs |-> dataset.attrs, no_coordinates |-> {}]
    ELSE LET before == AssignAttrs(dataset, attributes, order, n - 1)
             var == order[n]
         IN  IF before.status # "ok" THEN before
             ELSE IF var \notin DOMAIN dataset.attrs
                  THEN [before EXCEPT !.status = "KeyError"]
                  ELSE [status |-> "ok",
                        attrs |-> [before.attrs EXCEPT
                                        ![var] = attributes[var] @@ before.attrs[var]],
                        no_coordinates |->
                            before.no_coordinates
                                \cup (IF var \in IdVars THEN {var} ELSE {})]

\* what datetime.now() gives
Clock == {1, 2}

MetaInit ==
    \E dataset \in MetaDatasets :
        meta = [op |-> "init", dataset |-> dataset, custom |-> <<>>,
                status |-> "none", first_var |-> None, result |-> <<>>,
                no_coordinates |-> {}, date_created |-> 0]

create_encoding(custom_encoding) ==
    /\ meta.op = "init"
    /\ LET first_var == EncodingFirstVar(meta.dataset)
       IN  IF first_var = None
           THEN meta' = [meta EXCEPT !.op = "create_encoding",
                                     !.custom = custom_encoding,
                                     !.status = "ValueError"]
           ELSE meta' = [meta EXCEPT
                            !.op = "create_encoding",
                            !.custom = custom_encoding,
                            !.status = "ok",
                            !.first_var = first_var,
                            !.result = DictMerge(default_encoding(meta.dataset, first_var),
                                                 custom_encoding)]
    /\ UNCHANGED <<dedup_vars, codec_vars, coll_vars, stack_vars, merge_vars,
                   swath_vars, pool_vars, budget_vars>>

set_attributes(attributes, now) ==
    /\ meta.op = "init"
    /\ LET ra_type == dataset_ra_type(meta.dataset)
       IN  IF ra_type = None
           THEN meta' = [meta EXCEPT !.op = "set_attributes",
                                     !.custom = attributes,
                                     !.status = "ValueError"]
           ELSE LET first_var == IF ra_type = "contiguous" THEN "row_size"
                                 ELSE "locationIndex"
                    merged == DictMerge(default_attrs(first_var), attributes)
                    order == AttributeOrder(first_var, attributes)
                    done == AssignAttrs(meta.dataset, merged, order, Len(order))
                IN  meta' = [meta EXCEPT
                                !.op = "set_attributes",
                                !.custom = attributes,
                                !.status = done.status,
                                !.first_var = first_var,
                                !.result = done.attrs,
                                !.no_coordinates = done.no_coordinates,
                                !.date_created = IF done.status = "ok" THEN now ELSE 0]
    /\ UNCHANGED <<dedup_vars, codec_vars, coll_vars, stack_vars, merge_vars,
                   swath_vars, pool_vars, budget_vars>>

MetaNext ==
    \/ \E custom_encoding \in CustomEncodings : create_encoding(custom_encoding)
    \/ \E attributes \in CustomAttributes, now \in Clock : set_attributes(attributes, now)

MetaSpecInit ==
    MetaInit /\ DedupIdle /\ CodecIdle /\ CollIdle /\ StackIdle /\ MergeIdle /\ SwathIdle /\ PoolIdle /\ BudgetIdle

MetaSpec == MetaSpecInit /\ [][MetaNext]_vars

\* ------------------------------------------------- claims on the metadata
\* the defaults that the last call started from
MetaDefaults ==
    IF meta.op = "create_encoding"
    THEN default_encoding(meta.dataset, meta.first_var)
    ELSE [v \in DOMAIN default_attrs(meta.first_var) \cap DOMAIN meta.dataset.attrs |->
            default_attrs(meta.first_var)[v] @@ meta.dataset.attrs[v]]

MetaOk == meta.op \in {"create_encoding", "set_attributes"} /\ meta.status = "ok"

\* C21 as stated: the defaults are attached, an override changes only the
\* fields it names (the default fields of that variable that it does not name
\* are retained), and the defaults of every other variable are unchanged.
C21_OverrideKeepsUnnamedDefaults ==
    MetaOk =>
        \A v \in DOMAIN MetaDefaults :
            /\ v \in DOMAIN meta.result
            /\ \A f \in DOMAIN MetaDefaults[v] :
                    (v \notin DOMAIN meta.custom \/ f \notin DOMAIN meta.custom[v]) =>
                        /\ f \in DOMAIN meta.result[v]
                        /\ meta.result[v][f] = MetaDefaults[v][f]

\* C21, amended: the defaults are attached to every variable that has no
\* override and are unchanged by the overrides of other variables; an override
\* replaces the default entry of its variable as a whole: the encoding of the
\* variable is exactly the override, and its attributes are the override's on
\* top of the attributes the variable carried before the call, so the default
\* fields that the override does not name are dropped.
C21_OverrideReplacesEntry ==
    MetaOk =>
        /\ \A v \in DOMAIN MetaDefaults \ DOMAIN meta.custom :
                v \in DOMAIN meta.result /\ meta.result[v] = MetaDefaults[v]
        /\ \A v \in DOMAIN meta.custom :
                /\ v \in DOMAIN meta.result
                /\ meta.result[v] =
                        IF meta.op = "create_encoding" THEN meta.custom[v]
                        ELSE meta.custom[v] @@ meta.dataset.attrs[v]

\* an encoding override of lon that names only units: dtype, compression and
\* fill value of lon are gone, the defaults of time are in place
C21_Witness ==
    /\ meta.op = "create_encoding" /\ meta.status = "ok"
    /\ DOMAIN meta.custom = {"lon"}
    /\ DOMAIN meta.result["lon"] = {"units"}
    /\ meta.result["time"] = MetaDefaults["time"]
    /\ "complevel" \in DOMAIN meta.result["time"]

\* ---------------------------- SwathFileCollection._parallel_write_cells
\* most flushes of one call of stack
MaxFlushes == 2
\* most observations of a flushed buffer
MaxCellObs == 3
\* largest processes argument of stack
MaxProcesses == 2

\* the cells of the output grid that the observations of a buffer fall in
PoolCells == {0, 1, 2}

\* ds.cell.values of a processed buffer: the cell of every observation
CellValues == SeqsUpTo(PoolCells, MaxCellObs)

\* the mutant of Unique: one task per observation
UniqueKeepsAll(values) == values

\* np.unique(ds.cell.values)
Unique(values) == SortedSeqOfSet(Range(values))

\* chunksize=(len(cells) // processes) + 1
Chunksize(cells, processes) == (Len(cells) \div processes) + 1

\* the chunks that imap_unordered cuts the argument list into
Chunks(args, chunksize) ==
    [k \in 1..((Len(args) + chunksize - 1) \div chunksize) |->
        SubSeq(args, (k - 1) * chunksize + 1,
               IF k * chunksize < Len(args) THEN k * chunksize ELSE Len(args))]

\* a worker that is not in _write_cell_ds
NoTask == -1

\* a worker: the chunk it has taken, with the task it works on at its head,
\* and the cell it is writing
IdleWorker == [chunk |-> <<>>, writing |-> NoTask]

PoolInit ==
    \E processes \in 1..MaxProcesses :
        pool = [pc |-> "stack", processes |-> processes, flush |-> 0,
                cells |-> <<>>, queue |-> <<>>,
                workers |-> [w \in 1..processes |-> IdleWorker],
                written |-> <<>>]

\* stack calls _parallel_write_cells(combined_ds, ...): one task per cell;
\* with processes > 1 the tasks go to a pool in chunks, else the caller runs
\* them itself in the order of the list (worker 1 stands for the caller)
parallel_write_cells(values) ==
    /\ pool.pc = "stack"
    /\ pool.flush < MaxFlushes
    /\ LET cells == Unique(values)
       IN  pool' = [pool EXCEPT
                        !.pc = "writing",
                        !.flush = @ + 1,
                        !.cells = cells,
                        !.queue = IF pool.processes > 1
                                  THEN Chunks(cells, Chunksize(cells, pool.processes))
                                  ELSE IF cells = <<>> THEN <<>> ELSE <<cells>>,
                        !.written = <<>>]
    /\ UNCHANGED <<dedup_vars, codec_vars, coll_vars, stack_vars, merge_vars,
                   swath_vars, meta_vars, budget_vars>>

\* a free worker goes on with its chunk, or takes the next chunk, and enters
\* _write_cell_ds for the task at its head
StartTask(w) ==
    /\ pool.pc = "writing"
    /\ w <= pool.processes
    /\ pool.workers[w].writing = NoTask
    /\ IF pool.workers[w].chunk # <<>>
       THEN pool' = [pool EXCEPT
                        !.workers[w].writing = Head(pool.workers[w].chunk)]
       ELSE /\ pool.queue # <<>>
            /\ pool' = [pool EXCEPT
                            !.queue = Tail(@),
                            !.workers[w] = [chunk |-> Head(pool.queue),
                                            writing |-> Head(Head(pool.queue))]]
    /\ UNCHANGED <<dedup_vars, codec_vars, coll_vars, stack_vars, merge_vars,
                   swath_vars, meta_vars, budget_vars>>

\* the worker leaves _write_cell_ds: the shard is written and closed, or the
\* write raised; the exception reaches the caller through the iteration over
\* the results, and leaving the with block terminates the pool
EndTask(w, io_ok) ==
    /\ pool.pc = "writing"
    /\ w <= pool.processes
    /\ pool.workers[w].writing # NoTask
    /\ IF io_ok
       THEN pool' = [pool EXCEPT
                        !.written = Append(@, pool.workers[w].writing),
                        !.workers[w] = [chunk |-> Tail(pool.workers[w].chunk),
                                        writing |-> NoTask]]
       ELSE pool' = [pool EXCEPT
                        !.pc = "raised",
                        !.queue = <<>>,
                        !.workers = [v \in 1..pool.processes |-> IdleWorker]]
    /\ UNCHANGED <<dedup_vars, codec_vars, coll_vars, stack_vars, merge_vars,
                   swath_vars, meta_vars, budget_vars>>

\* the iteration over imap_unordered has received every result (or the loop
\* over args has ended): _parallel_write_cells returns to stack
PoolDone ==
    /\ pool.pc = "writing"
    /\ pool.queue = <<>>
    /\ \A w \in 1..pool.processes : pool.workers[w] = IdleWorker
    /\ pool' = [pool EXCEPT !.pc = "stack"]
    /\ UNCHANGED <<dedup_vars, codec_vars, coll_vars, stack_vars, merge_vars,
                   swath_vars, meta_vars, budget_vars>>

\* stack returns after its last flush
StackReturn ==
    /\ pool.pc = "stack"
    /\ pool' = [pool EXCEPT !.pc = "returned"]
    /\ UNCHANGED <<dedup_vars, codec_vars, coll_vars, stack_vars, merge_vars,
                   swath_vars, meta_vars, budget_vars>>

PoolNext ==
    \/ \E values \in CellValues : parallel_write_cells(values)
    \/ \E w \in 1..MaxProcesses : StartTask(w)
    \/ \E w \in 1..MaxProcesses, io_ok \in BOOLEAN : EndTask(w, io_ok)
    \/ PoolDone
    \/ StackReturn

PoolSpecInit ==
    PoolInit /\ DedupIdle /\ CodecIdle /\ CollIdle /\ StackIdle /\ MergeIdle /\ SwathIdle
    /\ MetaIdle /\ BudgetIdle

PoolSpec == PoolSpecInit /\ [][PoolNext]_vars

\* ------------------------------------------------ claims on the write tasks
\* the workers that are writing a shard
Writing == {w \in 1..pool.processes : pool.workers[w].writing # NoTask}

\* C25: within one run of stack no two write tasks for the same cell file are
\* in progress at the same time: the tasks of a flush are for pairwise
\* distinct cells, and every task of a flush has completed, each cell written
\* once, before the next flush is dispatched and before stack returns.
C25_NoConcurrentWritesToOneCell ==
    pool # <<>> =>
        /\ \A v \in Writing, w \in Writing :
                v # w => pool.workers[v].writing # pool.workers[w].writing
        /\ \A i \in 1..Len(pool.cells), j \in 1..Len(pool.cells) :
                i # j => pool.cells[i] # pool.cells[j]
        /\ pool.pc \in {"stack", "returned"} =>
                /\ Writing = {}
                /\ pool.queue = <<>>
                /\ IsPermutation(pool.written, pool.cells)

\* the second flush of a run with two workers: one writes the shard of cell 0
\* while the other writes the shard of cell 2
C25_Witness ==
    /\ pool # <<>>
    /\ pool.pc = "writing"
    /\ pool.flush = 2
    /\ pool.processes = 2
    /\ pool.workers[1].writing = 0
    /\ pool.workers[2].writing = 2

\* ----------------------- SwathFileCollection.stack: what reaches the shards
\* most swath files given to one call
MaxBudgetFiles == 2

\* the buffer_memory_mb argument, in megabytes; the last is the default 6*1024
Budgets == {6, 12, 6 * 1024}

\* a swath file: its size, its spacecraft attribute, and its one observation,
\* of which the cell and the time in minutes matter
BudgetFiles == [mb : {4, 8}, spacecraft : {"a", "b"}, cell : {0, 1}, time : {0, 20}]

\* the observation of file k of the call
ObsOfFile(fnames, k) == [file |-> k, cell |-> fnames[k].cell, time |-> fnames[k].time]

\* _combine_attributes on the global attributes of the buffered files: the
\* spacecraft of all of them must be the same
SpacecraftMismatch(fnames, buffer) ==
    \E i \in 1..Len(buffer), j \in 1..Len(buffer) :
        fnames[buffer[i]].spacecraft # fnames[buffer[j]].spacecraft

\* what _write_cell_ds hands to the writer for a cell: the observations of
\* the buffer that fall in the cell, in buffer order, after the dedup of
\* _cell_data_as_indexed_ra
CellDataWritten(fnames, buffer, cell) ==
    LET obs == [i \in 1..Len(buffer) |-> ObsOfFile(fnames, buffer[i])]
        data == Sel(obs, [i \in 1..Len(obs) |-> obs[i].cell = cell])
    IN  Range(DropDupl(data, DuplMask(data, DupeWindow)))

\* one flush: combine_nested, process, _parallel_write_cells; shards maps a
\* cell to the observations appended to its shard so far
FlushBuffer(fnames, buffer, shards) ==
    IF buffer = <<>>
    THEN \* process() of the empty dataset has no "obs"
         [status |-> "KeyError", shards |-> shards]
    ELSE IF SpacecraftMismatch(fnames, buffer)
    THEN [status |-> "ValueError", shards |-> shards]
    ELSE [status |-> "ok",
          shards |-> [c \in DOMAIN shards |->
                        shards[c] \cup CellDataWritten(fnames, buffer, c)]]

\* the loop of stack over the first n files
RECURSIVE StackLoop(_, _, _)
StackLoop(fnames, budget, n) ==
    IF n = 0
    THEN [status |-> "ok", buffer |-> <<>>, buffer_size |-> 0,
          shards |-> [c \in {0, 1} |-> {}]]
    ELSE LET before == StackLoop(fnames, budget, n - 1)
             buffer_size == before.buffer_size + fnames[n].mb
         IN  IF before.status # "ok" THEN before
             ELSE IF buffer_size > budget
             THEN LET flushed == FlushBuffer(fnames, before.buffer, before.shards)
                  IN  IF flushed.status # "ok"
                      THEN [before EXCEPT !.status = flushed.status]
                      ELSE [status |-> "ok", buffer |-> <<n>>,
                            buffer_size |-> fnames[n].mb,
                            shards |-> flushed.shards]
             ELSE [before EXCEPT !.buffer = Append(@, n),
                                 !.buffer_size = buffer_size]

\* stack(fnames, out_dir, buffer_memory_mb=budget) once confirmed: how it
\* ends and what it has appended to each shard
StackOutcome(fnames, budget) ==
    LET after == StackLoop(fnames, budget, Len(fnames))
    IN  IF after.status # "ok" \/ after.buffer = <<>>
        THEN [status |-> after.status, shards |-> after.shards]
        ELSE FlushBuffer(fnames, after.buffer, after.shards)

BudgetInit ==
    \E fnames \in SeqsUpTo(BudgetFiles, MaxBudgetFiles) :
        run = [pc |-> "init", fnames |-> fnames, budget |-> 0,
               outcome |-> [status |-> "none", shards |-> <<>>]]

stack(budget) ==
    /\ run.pc = "init"
    /\ run' = [run EXCEPT !.pc = "done", !.budget = budget,
                          !.outcome = StackOutcome(run.fnames, budget)]
    /\ UNCHANGED <<dedup_vars, codec_vars, coll_vars, stack_vars, merge_vars,
                   swath_vars, meta_vars, pool_vars>>

BudgetNext == \E budget \in Budgets : stack(budget)

BudgetSpecInit ==
    BudgetInit /\ DedupIdle /\ CodecIdle /\ CollIdle /\ StackIdle /\ MergeIdle
    /\ SwathIdle /\ MetaIdle /\ PoolIdle

BudgetSpec == BudgetSpecInit /\ [][BudgetNext]_vars

\* C29: for a fixed sequence of input files the outcome of stack, how it
\* ends and the set of observations written to each cell shard, is the same
\* under every memory budget.
C29_OutcomeIndependentOfBudget ==
    (run # <<>> /\ run.pc = "done") =>
        \A budget \in Budgets : StackOutcome(run.fnames, budget) = run.outcome

====
